---- MODULE Spec2Model ----
(***************************************************************************)
(* PurpleDroid-CTF: the simulated shell (server/fakeshell).                *)
(*                                                                         *)
(* Text is modelled as a sequence of characters, each character a string   *)
(* of length one (or a tag such as "U+00E9" for a character whose UTF-8    *)
(* encoding is longer than one byte).  The parser, the for-loop matcher,   *)
(* shlex and the builtins work on those sequences character by character.  *)
(***************************************************************************)
EXTENDS Integers, Sequences, FiniteSets, TLC

VARIABLES
    shellAllowed,   \* FakeShell.allowed           (set of command names)
    env,            \* ShellContext.env as the caller fills it in
    cwd,            \* the caller's stored cwd, re-supplied to every context
    ctxAllowed,     \* ShellContext.allowed as the caller constructed it
    slow,           \* which builtin invocations of the call in progress are slow
    command,        \* the command text of the call in progress
    result,         \* what that call returned or raised
    trace,          \* the events of that call, in order
    shellRoutes,    \* FakeShell.http.routes      (the route table)
    webhooks,       \* levels.level4_5._STATE      (module state of the webhook)
    asked,          \* a library function called directly, with its arguments
    answer,         \* what that function returned
    sessions,       \* the learner sessions of level 4-5: cwd, commands sent, last answer
    session,        \* one entry of main.py's _sessions: the session dict
    clock           \* time.time(), in seconds

vars == <<shellAllowed, env, cwd, ctxAllowed, slow, command, result, trace,
          shellRoutes, webhooks, asked, answer, sessions, session, clock>>

(***************************************************************************)
(* Characters and text                                                     *)
(***************************************************************************)
Chars(str) == [i \in 1..Len(str) |-> SubSeq(str, i, i)]

Min(S) == CHOOSE x \in S : \A y \in S : x <= y
\* the greatest element, as the least of the negated ones
Max(S) == 0 - Min({0 - x : x \in S})

\* the elements of a finite set of integers in ascending order
SortedSeq(S) ==
    [k \in 1..Cardinality(S) |-> CHOOSE x \in S : Cardinality({y \in S : y < x}) = k - 1]

\* str.isspace() for the characters of the model (Python's \s and str.split())
PyWhitespace == {" ", "\t", "\n", "\r", "\f"}
\* shlex.whitespace
ShlexWhitespace == {" ", "\t", "\r", "\n"}
Digits == {"0", "1", "2", "3", "4", "5", "6", "7", "8", "9"}
Letters == {"a", "b", "c", "d", "e", "f", "g", "h", "i", "j", "k", "l", "m",
            "n", "o", "p", "q", "r", "s", "t", "u", "v", "w", "x", "y", "z",
            "A", "B", "C", "D", "E", "F", "G", "H", "I", "J", "K", "L", "M",
            "N", "O", "P", "Q", "R", "S", "T", "U", "V", "W", "X", "Y", "Z"}
\* regex \w
WordChars == Letters \cup Digits \cup {"_"}

\* the printable ASCII characters in code point order, from 32 (space) on
\* (the grave accent, which a TLA+ string cannot hold, is the tag "U+0060")
Ascii == Chars(" !\"#$%&'()*+,-./0123456789:;<=>?@ABCDEFGHIJKLMNOPQRSTUVWXYZ[\\]^_")
         \o <<"U+0060">> \o Chars("abcdefghijklmnopqrstuvwxyz{|}~")
\* ord(c)
CodePoint(c) ==
    IF c = "\t" THEN 9 ELSE IF c = "\n" THEN 10 ELSE IF c = "\f" THEN 12
    ELSE IF c = "\r" THEN 13 ELSE IF c = "U+00E9" THEN 233 ELSE IF c = "U+D55C" THEN 54620
    ELSE IF c = "U+C774" THEN 51060 ELSE IF c = "U+D544" THEN 54596
    ELSE IF c = "U+C694" THEN 50836 ELSE IF c = "U+D574" THEN 54644
    ELSE 31 + (CHOOSE i \in 1..Len(Ascii) : Ascii[i] = c)
\* c.upper() and c.lower() for one character
UpperChar(c) == IF CodePoint(c) \in 97..122 THEN Ascii[CodePoint(c) - 32 - 31] ELSE c
LowerChar(c) == IF CodePoint(c) \in 65..90 THEN Ascii[CodePoint(c) + 32 - 31] ELSE c
Upper(text) == [i \in 1..Len(text) |-> UpperChar(text[i])]
Lower(text) == [i \in 1..Len(text) |-> LowerChar(text[i])]

\* a < b for two texts (by code points, as Python compares str)
LessText(a, b) ==
    LET m == IF Len(a) < Len(b) THEN Len(a) ELSE Len(b)
        k == Max({i \in 0..m : SubSeq(a, 1, i) = SubSeq(b, 1, i)})
    IN  IF k = m THEN Len(a) < Len(b) ELSE CodePoint(a[k + 1]) < CodePoint(b[k + 1])
\* sorted(S) for a finite set of texts
SortedTexts(S) ==
    [k \in 1..Cardinality(S) |-> CHOOSE x \in S : Cardinality({y \in S : LessText(y, x)}) = k - 1]

\* number of bytes of the UTF-8 encoding of one character
Hangul == {"U+D55C", "U+C774", "U+D544", "U+C694", "U+D574"}
Utf8Width(c) == IF c = "U+00E9" THEN 2 ELSE IF c \in Hangul THEN 3 ELSE 1
IsWide2(c) == Utf8Width(c) >= 2
IsWide3(c) == Utf8Width(c) >= 3
\* len(text.encode("utf-8"))
ByteLen(text) == Len(text) + Len(SelectSeq(text, IsWide2)) + Len(SelectSeq(text, IsWide3))

\* text.startswith(prefix, i)   (i is a 1-based position)
StartsWithAt(text, prefix, i) ==
    /\ i + Len(prefix) - 1 <= Len(text)
    /\ SubSeq(text, i, i + Len(prefix) - 1) = prefix
StartsWith(text, prefix) == StartsWithAt(text, prefix, 1)
EndsWith(text, suffix) ==
    /\ Len(suffix) <= Len(text)
    /\ SubSeq(text, Len(text) - Len(suffix) + 1, Len(text)) = suffix

\* sub in text
Contains(text, sub) == \E i \in 1..(Len(text) + 1) : StartsWithAt(text, sub, i)

\* text.strip()
Strip(text) ==
    LET keep == {i \in 1..Len(text) : text[i] \notin PyWhitespace}
    IN  IF keep = {} THEN <<>> ELSE SubSeq(text, Min(keep), Max(keep))

\* regex classes of the for-loop pattern (Python str patterns: \s, \w, \d)
RegexWord == WordChars \cup {"U+00E9"} \cup Hangul
\* the position after the longest run of characters of class cls from i on
SkipClass(text, i, cls) ==
    Min({j \in i..(Len(text) + 1) : j = Len(text) + 1 \/ text[j] \notin cls})
IsAt(text, i, cls) == i <= Len(text) /\ text[i] \in cls

\* "".join(parts) and sep.join(parts); parts is a short sequence of texts
RECURSIVE JoinFrom(_, _, _)
JoinFrom(parts, sep, i) ==
    IF i > Len(parts) THEN <<>>
    ELSE IF i = Len(parts) THEN parts[i]
    ELSE parts[i] \o sep \o JoinFrom(parts, sep, i + 1)
Join(parts, sep) == JoinFrom(parts, sep, 1)

\* concatenation of the texts pieces[lo..hi], by halving
RECURSIVE Flatten(_, _, _)
Flatten(pieces, lo, hi) ==
    IF lo > hi THEN <<>>
    ELSE IF lo = hi THEN pieces[lo]
    ELSE LET mid == (lo + hi) \div 2
         IN  Flatten(pieces, lo, mid) \o Flatten(pieces, mid + 1, hi)

\* text.split(): the maximal runs of non-whitespace characters, in order
SplitWhitespace(text) ==
    LET n == Len(text)
        starts == {i \in 1..n : text[i] \notin PyWhitespace
                                /\ (i = 1 \/ text[i - 1] \in PyWhitespace)}
        ord == SortedSeq(starts)
        EndOf(i) == Min({j \in i..n : j = n \/ text[j + 1] \in PyWhitespace})
    IN  [k \in 1..Len(ord) |-> SubSeq(text, ord[k], EndOf(ord[k]))]

\* text.replace(old, new)
\* occurrences are taken left to right without overlap; skip[i] is the number
\* of characters at and after position i still covered by a match
RECURSIVE ReplaceSkips(_, _, _, _, _)
ReplaceSkips(text, old, lo, hi, skipIn) ==
    IF lo > hi THEN <<>>
    ELSE IF lo = hi
    THEN IF skipIn > 0 THEN <<skipIn>>
         ELSE IF StartsWithAt(text, old, lo) THEN <<Len(old) + 1>> ELSE <<0>>
    ELSE LET mid == (lo + hi) \div 2
             left == ReplaceSkips(text, old, lo, mid, skipIn)
             last == left[Len(left)]
             carry == IF last > Len(old) THEN Len(old) - 1
                      ELSE IF last > 0 THEN last - 1 ELSE 0
         IN  left \o ReplaceSkips(text, old, mid + 1, hi, carry)
Replace(text, old, new) ==
    IF old = <<>>
    THEN Flatten([k \in 1..(2 * Len(text) + 1) |->
                    IF k % 2 = 1 THEN new ELSE <<text[k \div 2]>>], 1, 2 * Len(text) + 1)
    ELSE LET sk == ReplaceSkips(text, old, 1, Len(text), 0)
         IN  Flatten([i \in 1..Len(text) |->
                        IF sk[i] > Len(old) THEN new
                        ELSE IF sk[i] > 0 THEN <<>> ELSE <<text[i]>>], 1, Len(text))

\* str(i) for an integer
RECURSIVE NatToStr(_)
NatToStr(n) ==
    LET d == SubSeq("0123456789", (n % 10) + 1, (n % 10) + 1)
    IN  IF n < 10 THEN <<d>> ELSE NatToStr(n \div 10) \o <<d>>
IntToStr(i) == IF i < 0 THEN <<"-">> \o NatToStr(0 - i) ELSE NatToStr(i)

DigitVal(c) == CHOOSE v \in 0..9 : SubSeq("0123456789", v + 1, v + 1) = c
RECURSIVE DigitsToNat(_, _)
DigitsToNat(ds, n) ==
    IF n = 0 THEN 0 ELSE 10 * DigitsToNat(ds, n - 1) + DigitVal(ds[n])

(***************************************************************************)
(* parser.py                                                               *)
(***************************************************************************)
\* One step of the scan of _split_outside_quotes at position i.  A state is
\* [quote, escaped, skip, split]: the open quote character ("" for None),
\* the escaped flag, the number of delimiter characters still to jump over,
\* and whether a delimiter starts at this position.
SplitStep(text, token, i, s) ==
    LET ch == text[i]
        plain == [quote |-> s.quote, escaped |-> FALSE, skip |-> 0, split |-> FALSE]
    IN  IF s.skip > 0 THEN [plain EXCEPT !.escaped = s.escaped, !.skip = s.skip - 1]
        ELSE IF s.escaped THEN plain
        ELSE IF ch = "\\" THEN [plain EXCEPT !.escaped = TRUE]
        ELSE IF s.quote # "" THEN (IF ch = s.quote THEN [plain EXCEPT !.quote = ""] ELSE plain)
        ELSE IF ch \in {"'", "\""} THEN [plain EXCEPT !.quote = ch]
        ELSE IF StartsWithAt(text, token, i)
             THEN [plain EXCEPT !.skip = Len(token) - 1, !.split = TRUE]
        ELSE plain

\* the states after each of the positions lo..hi, by halving
RECURSIVE SplitStates(_, _, _, _, _)
SplitStates(text, token, lo, hi, s0) ==
    IF lo > hi THEN <<>>
    ELSE IF lo = hi THEN <<SplitStep(text, token, lo, s0)>>
    ELSE LET mid == (lo + hi) \div 2
             left == SplitStates(text, token, lo, mid, s0)
         IN  left \o SplitStates(text, token, mid + 1, hi, left[Len(left)])

split_outside_quotes(text, token) ==
    IF text = <<>> THEN << <<>> >>
    ELSE
    LET n == Len(text)
        st == SplitStates(text, token, 1, n,
                          [quote |-> "", escaped |-> FALSE, skip |-> 0, split |-> FALSE])
        cuts == SortedSeq({i \in 1..n : st[i].split})
        k == Len(cuts)
        From(j) == IF j = 1 THEN 1 ELSE cuts[j - 1] + Len(token)
        To(j) == IF j = k + 1 THEN n ELSE cuts[j] - 1
    IN  [j \in 1..(k + 1) |-> Strip(SubSeq(text, From(j), To(j)))]

\* One step of shlex (posix, whitespace_split, no commenters) at character c.
\* A state is [mode, esc, emit, sep]: the lexer state (" ", "a", a quote or
\* the escape character), the escapedstate, how the character contributes
\* to the token (0 nothing, 1 the character, 2 a backslash and the
\* character) and whether it is whitespace that ends a token.
ShlexStep(c, s) ==
    LET keep == [mode |-> s.mode, esc |-> s.esc, emit |-> 0, sep |-> FALSE]
    IN  IF s.mode = " "
        THEN IF c \in ShlexWhitespace THEN [keep EXCEPT !.sep = TRUE]
             ELSE IF c = "\\" THEN [keep EXCEPT !.esc = "a", !.mode = "\\"]
             ELSE IF c \in {"'", "\""} THEN [keep EXCEPT !.mode = c]
             ELSE [keep EXCEPT !.mode = "a", !.emit = 1]
        ELSE IF s.mode \in {"'", "\""}
        THEN IF c = s.mode THEN [keep EXCEPT !.mode = "a"]
             ELSE IF c = "\\" /\ s.mode = "\"" THEN [keep EXCEPT !.esc = s.mode, !.mode = "\\"]
             ELSE [keep EXCEPT !.emit = 1]
        ELSE IF s.mode = "\\"
        THEN [keep EXCEPT !.mode = s.esc,
                          !.emit = IF s.esc \in {"'", "\""} /\ c # "\\" /\ c # s.esc
                                   THEN 2 ELSE 1]
        ELSE \* "a"
             IF c \in ShlexWhitespace THEN [keep EXCEPT !.mode = " ", !.sep = TRUE]
             ELSE IF c \in {"'", "\""} THEN [keep EXCEPT !.mode = c]
             ELSE IF c = "\\" THEN [keep EXCEPT !.esc = "a", !.mode = "\\"]
             ELSE [keep EXCEPT !.emit = 1]

RECURSIVE ShlexStates(_, _, _, _)
ShlexStates(text, lo, hi, s0) ==
    IF lo > hi THEN <<>>
    ELSE IF lo = hi THEN <<ShlexStep(text[lo], s0)>>
    ELSE LET mid == (lo + hi) \div 2
             left == ShlexStates(text, lo, mid, s0)
         IN  left \o ShlexStates(text, mid + 1, hi, left[Len(left)])

Dropped == "(dropped)"
NotDropped(c) == c # Dropped

\* shlex.split(text): [err |-> the ValueError message or <<>>, tokens |-> argv]
shlex_split(text) ==
    LET n == Len(text)
        st == ShlexStates(text, 1, n, [mode |-> " ", esc |-> " ", emit |-> 0, sep |-> FALSE])
        final == IF n = 0 THEN " " ELSE st[n].mode
        \* position 2i-1 holds the backslash kept in front of character i, 2i the character
        emitted == [k \in 1..(2 * n) |->
                      IF k % 2 = 1
                      THEN (IF st[(k + 1) \div 2].emit = 2 THEN "\\" ELSE Dropped)
                      ELSE (IF st[k \div 2].emit >= 1 THEN text[k \div 2] ELSE Dropped)]
        starts == SortedSeq({i \in 1..n : ~st[i].sep /\ (i = 1 \/ st[i - 1].sep)})
        EndOf(i) == Min({j \in i..n : j = n \/ st[j + 1].sep})
    IN  IF final \in {"'", "\""}
        THEN [err |-> Chars("No closing quotation"), tokens |-> <<>>]
        ELSE IF final = "\\"
        THEN [err |-> Chars("No escaped character"), tokens |-> <<>>]
        ELSE [err |-> <<>>,
              tokens |-> [k \in 1..Len(starts) |->
                            SelectSeq(SubSeq(emitted, 2 * starts[k] - 1, 2 * EndOf(starts[k])),
                                      NotDropped)]]

NotEmpty(text) == text # <<>>

\* the stages of one chain, tokenized: a list of shlex_split results
LexChain(chain) ==
    LET stagesRaw == SelectSeq(split_outside_quotes(chain, Chars("|")), NotEmpty)
    IN  [j \in 1..Len(stagesRaw) |-> shlex_split(stagesRaw[j])]

\* the chains that have stages, or the error of the first stage (in chain
\* and stage order) that shlex cannot tokenize
ChainsOf(lexed) ==
    LET bad == UNION {{<<c, j>> : j \in {j \in 1..Len(lexed[c]) : lexed[c][j].err # <<>>}} :
                        c \in 1..Len(lexed)}
        firstBad == CHOOSE p \in bad : \A q \in bad :
                        p[1] < q[1] \/ (p[1] = q[1] /\ p[2] <= q[2])
        kept == SortedSeq({c \in 1..Len(lexed) : Len(lexed[c]) > 0})
    IN  IF bad # {}
        THEN [err |-> lexed[firstBad[1]][firstBad[2]].err, chains |-> <<>>]
        ELSE [err |-> <<>>,
              chains |-> [k \in 1..Len(kept) |->
                            [j \in 1..Len(lexed[kept[k]]) |-> lexed[kept[k]][j].tokens]]]

\* parse_command_line(command): [err, chains]; err is the message of the
\* ValueError shlex.split raises, <<>> if it raises none
LexChains(chainsRaw) == [c \in 1..Len(chainsRaw) |-> LexChain(chainsRaw[c])]
parse_command_line(cmd) ==
    ChainsOf(LexChains(SelectSeq(split_outside_quotes(cmd, Chars("&&")), NotEmpty)))

(***************************************************************************)
(* limits.py                                                               *)
(***************************************************************************)
MAX_INPUT_CHARS == 1250
MAX_PIPE_STAGES == 8
MAX_OUTPUT_BYTES == 50000
TruncationMarker == Chars("\n...(truncated)\n")

\* a check_input_limit that refuses a command of MAX_INPUT_CHARS characters too
check_input_limit_strict(cmd) ==
    IF Len(cmd) >= MAX_INPUT_CHARS
    THEN Chars("command too long (max ") \o IntToStr(MAX_INPUT_CHARS) \o Chars(")")
    ELSE <<>>

\* check_input_limit: the message of the ValueError it raises, or <<>>
check_input_limit(cmd) ==
    IF Len(cmd) > MAX_INPUT_CHARS
    THEN Chars("command too long (max ") \o IntToStr(MAX_INPUT_CHARS) \o Chars(")")
    ELSE <<>>

\* check_stage_limit: the message of the ValueError it raises, or <<>>
check_stage_limit(stage_count) ==
    IF stage_count > MAX_PIPE_STAGES
    THEN Chars("too many pipeline stages (max ") \o IntToStr(MAX_PIPE_STAGES) \o Chars(")")
    ELSE <<>>

\* raw[:MAX_OUTPUT_BYTES].decode("utf-8", errors="ignore") keeps the
\* characters whose encoding lies wholly inside the first MAX_OUTPUT_BYTES
\* bytes: the longest prefix of at most that many bytes, searched between a
\* length lo that fits and a length hi that bounds it.
RECURSIVE ClipLen(_, _, _)
ClipLen(text, lo, hi) ==
    IF lo >= hi THEN lo
    ELSE LET mid == (lo + hi + 1) \div 2
         IN  IF ByteLen(SubSeq(text, 1, mid)) <= MAX_OUTPUT_BYTES
             THEN ClipLen(text, mid, hi)
             ELSE ClipLen(text, lo, mid - 1)

\* every character has at least one byte, so at most MAX_OUTPUT_BYTES
\* characters fit, and dropping one character drops at least one byte
Clipped(text) ==
    LET hi == IF Len(text) < MAX_OUTPUT_BYTES THEN Len(text) ELSE MAX_OUTPUT_BYTES
        over == ByteLen(SubSeq(text, 1, hi)) - MAX_OUTPUT_BYTES
    IN  IF over <= 0 THEN SubSeq(text, 1, hi)
        ELSE SubSeq(text, 1, ClipLen(text, IF hi > over THEN hi - over ELSE 0, hi - 1))

\* a truncate_output that marks every text as truncated
truncate_output_always(text) == Clipped(text) \o TruncationMarker

\* truncate_output(text)[0]
truncate_output(text) ==
    IF ByteLen(text) <= MAX_OUTPUT_BYTES THEN text
    ELSE Clipped(text) \o TruncationMarker

(***************************************************************************)
(* filesystem.py                                                           *)
(***************************************************************************)
\* text.split(sep) for a one-character separator
SplitOn(text, sep) ==
    LET n == Len(text)
        cuts == SortedSeq({i \in 1..n : text[i] = sep})
        k == Len(cuts)
        From(j) == IF j = 1 THEN 1 ELSE cuts[j - 1] + 1
        To(j) == IF j = k + 1 THEN n ELSE cuts[j] - 1
    IN  [j \in 1..(k + 1) |-> SubSeq(text, From(j), To(j))]

\* posixpath.join(a, b)
posix_join(a, b) ==
    IF StartsWith(b, <<"/">>) THEN b
    ELSE IF a = <<>> \/ EndsWith(a, <<"/">>) THEN a \o b
    ELSE a \o <<"/">> \o b

\* the component stack of posixpath.normpath
RECURSIVE NormComps(_, _, _, _)
NormComps(comps, i, initial_slashes, new_comps) ==
    IF i > Len(comps) THEN new_comps
    ELSE LET comp == comps[i]
             k == Len(new_comps)
         IN  IF comp = <<>> \/ comp = <<".">>
             THEN NormComps(comps, i + 1, initial_slashes, new_comps)
             ELSE IF \/ comp # <<".", ".">>
                     \/ (initial_slashes = 0 /\ k = 0)
                     \/ (k > 0 /\ new_comps[k] = <<".", ".">>)
             THEN NormComps(comps, i + 1, initial_slashes, Append(new_comps, comp))
             ELSE IF k > 0
             THEN NormComps(comps, i + 1, initial_slashes, SubSeq(new_comps, 1, k - 1))
             ELSE NormComps(comps, i + 1, initial_slashes, new_comps)

\* posixpath.normpath(path)
posix_normpath(path) ==
    LET Slashed(initial_slashes) ==
            [i \in 1..initial_slashes |-> "/"]
                \o Join(NormComps(SplitOn(path, "/"), 1, initial_slashes, <<>>), <<"/">>)
        OrDot(full) == IF full = <<>> THEN <<".">> ELSE full
    IN  IF path = <<>> THEN <<".">>
        ELSE OrDot(Slashed(IF ~StartsWith(path, <<"/">>) THEN 0
                           ELSE IF StartsWith(path, <<"/", "/">>)
                                   /\ ~StartsWith(path, <<"/", "/", "/">>)
                           THEN 2 ELSE 1))

\* a variant of _normalize that joins every path, absolute or not, to cwd
normalize_joined(path, dir) ==
    IF path = <<>> THEN (IF dir = <<>> THEN <<"/">> ELSE dir)
    ELSE posix_normpath((IF dir = <<>> THEN <<"/">> ELSE dir) \o <<"/">> \o path)

\* VirtualFS._normalize(path, cwd)
normalize(path, dir) ==
    LET Rooted(normalized) ==
            IF StartsWith(normalized, <<"/">>) THEN normalized ELSE <<"/">> \o normalized
    IN  IF path = <<>> THEN (IF dir = <<>> THEN <<"/">> ELSE dir)
        ELSE Rooted(posix_normpath(
                 IF StartsWith(path, <<"/">>) THEN path
                 ELSE posix_join(IF dir = <<>> THEN <<"/">> ELSE dir, path)))

\* VirtualFS.resolve(path, cwd)
resolve(path, dir) == normalize(path, dir)

\* file contents of the tree below
XRun(n) == [i \in 1..n |-> "x"]
BigLog == XRun(MAX_OUTPUT_BYTES + 1)
CapLog == XRun(MAX_OUTPUT_BYTES - 1) \o <<"\n">>
WideLog == XRun(MAX_OUTPUT_BYTES - 1) \o <<"U+00E9", "\n">>
MarkedLog == Chars("job 1") \o TruncationMarker \o XRun(MAX_OUTPUT_BYTES)
\* names.log: file names a command can still spell out, enough of them that
\* the errors for all of them together exceed the output cap
NameLen == MAX_INPUT_CHARS - 10
NamesCount == (MAX_OUTPUT_BYTES \div NameLen) + 1
LongName == XRun(NameLen)
NamesLog == Flatten([k \in 1..NamesCount |-> LongName \o <<"\n">>], 1, NamesCount)

\* The tree FakeShell is constructed with (fs_tree), after _load_tree: every
\* node by its list of path components.  It is the tree of the level 4-2
\* shell with a directory of log files added.
FsTree ==
    { [path |-> <<Chars("workspace")>>, type |-> "dir", content |-> <<>>],
      [path |-> <<Chars("workspace"), Chars("README.txt")>>, type |-> "file",
       content |-> Chars("Level 4-2 key roulette lab\n")],
      [path |-> <<Chars("workspace"), Chars("tokens")>>, type |-> "dir", content |-> <<>>],
      [path |-> <<Chars("workspace"), Chars("tokens"), Chars("notes.txt")>>, type |-> "file",
       content |-> Chars("Inspect kid / alg / role / scope\n")],
      [path |-> <<Chars("workspace"), Chars("logs")>>, type |-> "dir", content |-> <<>>],
      [path |-> <<Chars("workspace"), Chars("logs"), Chars("big.log")>>, type |-> "file",
       content |-> BigLog],
      [path |-> <<Chars("workspace"), Chars("logs"), Chars("cap.log")>>, type |-> "file",
       content |-> CapLog],
      [path |-> <<Chars("workspace"), Chars("logs"), Chars("wide.log")>>, type |-> "file",
       content |-> WideLog],
      [path |-> <<Chars("workspace"), Chars("logs"), Chars("marked.log")>>, type |-> "file",
       content |-> MarkedLog],
      [path |-> <<Chars("workspace"), Chars("logs"), Chars("names.log")>>, type |-> "file",
       content |-> NamesLog] }

NoNode == [path |-> <<>>, type |-> "none", content |-> <<>>]
RootNode == [path |-> <<>>, type |-> "dir", content |-> <<>>]
NodeAt(parts) ==
    LET Pick(hits) == IF hits = {} THEN NoNode ELSE CHOOSE nd \in hits : TRUE
    IN  IF parts = <<>> THEN RootNode ELSE Pick({nd \in FsTree : nd.path = parts})

\* VirtualFS._get_node(path): walks the components from the root and gives
\* up at a missing child or at a component below a file
get_node(path) ==
    LET Walk(parts) ==
            IF \E i \in 1..Len(parts) :
                   \/ NodeAt(SubSeq(parts, 1, i - 1)).type # "dir"
                   \/ NodeAt(SubSeq(parts, 1, i)).type = "none"
            THEN NoNode
            ELSE NodeAt(parts)
        \* [x for x in path.strip("/").split("/") if x]
        From(p) == IF p = <<"/">> THEN RootNode
                   ELSE Walk(SelectSeq(SplitOn(p, "/"), NotEmpty))
    IN  From(normalize(path, <<"/">>))

\* VirtualFS.is_dir(path, cwd)
is_dir(path, dir) == get_node(normalize(path, dir)).type = "dir"

\* VirtualFS.read_file(path, cwd): [found, content]; found = FALSE is FileNotFoundError
read_file(path, dir) ==
    LET Read(node) == [found |-> node.type = "file", content |-> node.content]
    IN  Read(get_node(normalize(path, dir)))

ChildNames(parts) ==
    {nd.path[Len(parts) + 1] : nd \in
        {x \in FsTree : Len(x.path) = Len(parts) + 1 /\ SubSeq(x.path, 1, Len(parts)) = parts}}

\* VirtualFS.list_dir(path, cwd): [found, names]; found = FALSE is FileNotFoundError
list_dir(path, dir) ==
    LET List(node) == IF node.type # "dir" THEN [found |-> FALSE, names |-> <<>>]
                      ELSE [found |-> TRUE, names |-> SortedTexts(ChildNames(node.path))]
    IN  List(get_node(normalize(path, dir)))

\* posixpath.basename(path)
posix_basename(path) ==
    LET slashes == {i \in 1..Len(path) : path[i] = "/"}
    IN  IF slashes = {} THEN path ELSE SubSeq(path, Max(slashes) + 1, Len(path))

\* text.rstrip("/")
RStripSlash(text) ==
    LET keep == {i \in 1..Len(text) : text[i] # "/"}
    IN  IF keep = {} THEN <<>> ELSE SubSeq(text, 1, Max(keep))

\* walk(path, node) inside VirtualFS.find: the paths appended to out
RECURSIVE FindWalk(_, _, _)
FindWalk(path, parts, pattern) ==
    LET base == IF path # <<"/">> THEN posix_basename(path) ELSE <<"/">>
        self == IF pattern = <<>> \/ Contains(Lower(base), pattern) THEN <<path>> ELSE <<>>
        ChildPath(name) == IF path # <<"/">> THEN RStripSlash(path) \o <<"/">> \o name
                           ELSE <<"/">> \o name
        Below(names) == Flatten([k \in 1..Len(names) |->
                                    FindWalk(ChildPath(names[k]), Append(parts, names[k]), pattern)],
                                1, Len(names))
    IN  IF NodeAt(parts).type # "dir" THEN self
        ELSE self \o Below(SortedTexts(ChildNames(parts)))

\* VirtualFS.find(start, cwd, name_contains)
fs_find(start, dir, name_contains) ==
    LET From(root_path, start_node) ==
            IF start_node.type = "none" THEN <<>>
            ELSE FindWalk(root_path, start_node.path, Lower(name_contains))
        At(root_path) == From(root_path, get_node(root_path))
    IN  At(normalize(start, dir))

(***************************************************************************)
(* http.py, and urllib.parse.urlparse as VirtualHTTP.request uses it       *)
(***************************************************************************)
\* text.find(c) for one character: the first position, 0 if there is none
FindChar(text, c) ==
    LET hits == {i \in 1..Len(text) : text[i] = c}
    IN  IF hits = {} THEN 0 ELSE Min(hits)
HasChar(text, c) == FindChar(text, c) > 0
NotUrlUnsafe(c) == c \notin {"\t", "\r", "\n"}
SchemeChars == Letters \cup Digits \cup {"+", "-", "."}
UsesParams == {Chars(""), Chars("ftp"), Chars("hdl"), Chars("prospero"), Chars("http"),
               Chars("imap"), Chars("https"), Chars("shttp"), Chars("rtsp"), Chars("rtspu"),
               Chars("sip"), Chars("sips"), Chars("mms"), Chars("sftp"), Chars("tel")}

\* urlparse(url): [err, scheme, netloc, path, query]; err is the message of
\* the ValueError urlsplit raises for a malformed bracketed host, or <<>>.
\* (Of the bracketed hosts only ::1 is taken to be a valid address.)
urlparse(url0) ==
    LET \* the checks urlsplit makes on a bracketed host
        Result(scheme, netloc, path, query) ==
            LET open == HasChar(netloc, "[")
                close == HasChar(netloc, "]")
                afterOpen == SubSeq(netloc, FindChar(netloc, "[") + 1, Len(netloc))
                bracketed == SubSeq(afterOpen, 1, FindChar(afterOpen, "]") - 1)
            IN  IF open # close
                THEN [err |-> Chars("Invalid IPv6 URL"), scheme |-> scheme, netloc |-> netloc,
                      path |-> <<>>, query |-> <<>>]
                ELSE IF open /\ close /\ bracketed # Chars("::1")
                THEN [err |-> <<"'">> \o bracketed
                                \o Chars("' does not appear to be an IPv4 or IPv6 address"),
                      scheme |-> scheme, netloc |-> netloc, path |-> <<>>, query |-> <<>>]
                ELSE [err |-> <<>>, scheme |-> scheme, netloc |-> netloc, path |-> path,
                      query |-> query]
        \* ;params are split off the last path segment
        PathOf(scheme, url5) ==
            LET slashes == {i \in 1..Len(url5) : url5[i] = "/"}
                semis == {i \in 1..Len(url5) : url5[i] = ";" /\ (slashes = {} \/ i > Max(slashes))}
            IN  IF scheme \in UsesParams /\ semis # {} THEN SubSeq(url5, 1, Min(semis) - 1)
                ELSE url5
        Query(scheme, netloc, url4) ==
            LET qm == FindChar(url4, "?")
            IN  Result(scheme, netloc,
                       PathOf(scheme, IF qm > 0 THEN SubSeq(url4, 1, qm - 1) ELSE url4),
                       IF qm > 0 THEN SubSeq(url4, qm + 1, Len(url4)) ELSE <<>>)
        Fragment(scheme, netloc, url3) ==
            LET hash == FindChar(url3, "#")
            IN  Query(scheme, netloc, IF hash > 0 THEN SubSeq(url3, 1, hash - 1) ELSE url3)
        Netloc(scheme, url2) ==
            LET hasNetloc == StartsWith(url2, <<"/", "/">>)
                delims == {i \in 3..Len(url2) : url2[i] \in {"/", "?", "#"}}
                delim == IF delims = {} THEN Len(url2) + 1 ELSE Min(delims)
            IN  Fragment(scheme,
                         IF hasNetloc THEN SubSeq(url2, 3, delim - 1) ELSE <<>>,
                         IF hasNetloc THEN SubSeq(url2, delim, Len(url2)) ELSE url2)
        Scheme(url1) ==
            LET colon == FindChar(url1, ":")
                hasScheme == /\ colon > 1
                             /\ url1[1] \in Letters
                             /\ \A i \in 1..(colon - 1) : url1[i] \in SchemeChars
            IN  Netloc(IF hasScheme THEN Lower(SubSeq(url1, 1, colon - 1)) ELSE <<>>,
                       IF hasScheme THEN SubSeq(url1, colon + 1, Len(url1)) ELSE url1)
        lead == {i \in 1..Len(url0) : url0[i] \notin PyWhitespace}
    IN  Scheme(IF lead = {} THEN <<>>
               ELSE SelectSeq(SubSeq(url0, Min(lead), Len(url0)), NotUrlUnsafe))

\* _status_text(code)
status_text(code) ==
    CASE code = 200 -> Chars("OK")
      [] code = 201 -> Chars("Created")
      [] code = 400 -> Chars("Bad Request")
      [] code = 401 -> Chars("Unauthorized")
      [] code = 403 -> Chars("Forbidden")
      [] code = 404 -> Chars("Not Found")
      [] code = 422 -> Chars("Unprocessable Entity")
      [] code = 429 -> Chars("Too Many Requests")
      [] code = 500 -> Chars("Internal Server Error")
      [] OTHER -> Chars("OK")

DefaultHeaders == << [k |-> Chars("content-type"), v |-> Chars("application/json")] >>

\* HttpResponse(status, headers, body)
HttpResponse(status, headers, body) == [status |-> status, headers |-> headers, body |-> body]

(***************************************************************************)
(* commands/*.py: the builtins.  A builtin gets (args, stdin, m) and       *)
(* returns [out, err, code, exc, m]: m is the context as the builtin       *)
(* leaves it, exc the type of an exception that escapes ("" if none; its   *)
(* message is then in err).                                                *)
(***************************************************************************)
Ret(out, err, code, m) == [out |-> out, err |-> err, code |-> code, exc |-> "", m |-> m]
Raise(exc, msg, m) == [out |-> <<>>, err |-> msg, code |-> 0, exc |-> exc, m |-> m]

\* ctx.env.get(key, default)
EnvGet(e, key, default) ==
    IF \E kv \in e : kv.k = Chars(key) THEN (CHOOSE kv \in e : kv.k = Chars(key)).v ELSE default

\* int(text): [ok, val]; ok = FALSE is the ValueError
ParseInt(text) ==
    LET NotUnderscore(c) == c # "_"
        Value(ds) == DigitsToNat(ds, Len(ds))
        Number(negative, body) ==
            LET n == Len(body)
            IN  IF /\ n > 0
                   /\ \A i \in 1..n : body[i] \in Digits \cup {"_"}
                   /\ body[1] # "_" /\ body[n] # "_"
                   /\ \A i \in 1..(n - 1) : ~(body[i] = "_" /\ body[i + 1] = "_")
                THEN [ok |-> TRUE,
                      val |-> IF negative THEN 0 - Value(SelectSeq(body, NotUnderscore))
                              ELSE Value(SelectSeq(body, NotUnderscore))]
                ELSE [ok |-> FALSE, val |-> 0]
        Signed(t) ==
            IF t # <<>> /\ t[1] \in {"+", "-"} THEN Number(t[1] = "-", SubSeq(t, 2, Len(t)))
            ELSE Number(FALSE, t)
    IN  Signed(Strip(text))

\* text.splitlines()
SplitLines(text) ==
    LET n == Len(text)
        ends == SortedSeq({i \in 1..n :
                    \/ text[i] \in {"\n", "\f"}
                    \/ (text[i] = "\r" /\ ~(i < n /\ text[i + 1] = "\n"))})
        k == Len(ends)
        From(j) == IF j = 1 THEN 1 ELSE ends[j - 1] + 1
        To(j) == IF j = k + 1 THEN n
                 ELSE IF text[ends[j]] = "\n" /\ ends[j] > From(j) /\ text[ends[j] - 1] = "\r"
                 THEN ends[j] - 2
                 ELSE ends[j] - 1
        count == IF k = 0 THEN (IF n > 0 THEN 1 ELSE 0)
                 ELSE IF ends[k] < n THEN k + 1 ELSE k
    IN  [j \in 1..count |-> SubSeq(text, From(j), To(j))]

\* "\n".join(lines), with a final newline unless there are no characters
JoinLines(lines) ==
    LET out == Join(lines, <<"\n">>)
    IN  IF out # <<>> THEN out \o <<"\n">> ELSE out

\* _read_input(args, stdin, ctx, offset): [text, err]
read_input(args, stdin, m, offset) ==
    LET Read(path, f) == IF f.found THEN [text |-> f.content, err |-> <<>>]
                         ELSE [text |-> <<>>, err |-> Chars("file not found: ") \o path]
    IN  IF Len(args) > offset THEN Read(args[offset + 1], read_file(args[offset + 1], m.cwd))
        ELSE [text |-> stdin, err |-> <<>>]

run_echo(args, stdin, m) ==
    IF args # <<>> THEN Ret(Join(args, <<" ">>) \o <<"\n">>, <<>>, 0, m)
    ELSE Ret(stdin \o (IF stdin # <<>> /\ ~EndsWith(stdin, <<"\n">>) THEN <<"\n">> ELSE <<>>),
             <<>>, 0, m)

run_help(args, stdin, m) ==
    LET names == SortedTexts(m.allowed)
        lines == <<Chars("Available commands:")>> \o
                 [k \in 1..Len(names) |-> Chars("  - ") \o names[k]]
    IN  Ret(Join(lines, <<"\n">>) \o <<"\n">>, <<>>, 0, m)

run_whoami(args, stdin, m) == Ret(EnvGet(m.env, "USER", Chars("guest")) \o <<"\n">>, <<>>, 0, m)

run_pwd(args, stdin, m) == Ret(m.cwd \o <<"\n">>, <<>>, 0, m)

\* a variant of run_cd that moves to the resolved target without looking it up
run_cd_unchecked(args, stdin, m) ==
    LET target == IF args # <<>> THEN args[1] ELSE EnvGet(m.env, "HOME", <<"/">>)
    IN  Ret(<<>>, <<>>, 0, [m EXCEPT !.cwd = resolve(target, m.cwd)])

run_cd(args, stdin, m) ==
    LET target == IF args # <<>> THEN args[1] ELSE EnvGet(m.env, "HOME", <<"/">>)
        resolved == resolve(target, m.cwd)
    IN  IF ~is_dir(resolved, <<"/">>)
        THEN Ret(<<>>, Chars("cd: no such directory: ") \o target, 1, m)
        ELSE Ret(<<>>, <<>>, 0, [m EXCEPT !.cwd = resolved])

run_ls(args, stdin, m) ==
    LET target == IF args # <<>> THEN args[1] ELSE <<".">>
        l == list_dir(target, m.cwd)
    IN  IF ~l.found
        THEN Ret(<<>>, Chars("ls: cannot access '") \o target \o
                       Chars("': No such file or directory"), 1, m)
        ELSE Ret(IF l.names # <<>> THEN Join(l.names, <<"\n">>) \o <<"\n">> ELSE <<>>, <<>>, 0, m)

run_cat(args, stdin, m) ==
    LET files == [k \in 1..Len(args) |-> read_file(args[k], m.cwd)]
        missing == {k \in 1..Len(args) : ~files[k].found}
        out == Join([k \in 1..Len(args) |-> files[k].content], <<"\n">>)
    IN  IF args = <<>> THEN Ret(stdin, <<>>, 0, m)
        ELSE IF missing # {}
        THEN Ret(<<>>, Chars("cat: ") \o args[Min(missing)] \o
                       Chars(": No such file or directory"), 1, m)
        ELSE Ret(IF out # <<>> /\ ~EndsWith(out, <<"\n">>) THEN out \o <<"\n">> ELSE out,
                 <<>>, 0, m)

\* the loop over the arguments of run_find: [start, name_contains]
RECURSIVE FindArgs(_, _, _, _)
FindArgs(args, i, start, name_contains) ==
    IF i > Len(args) THEN [start |-> start, name_contains |-> name_contains]
    ELSE IF args[i] = Chars("-name") /\ i + 1 <= Len(args)
    THEN FindArgs(args, i + 2, start, Replace(args[i + 1], <<"*">>, <<>>))
    ELSE IF ~StartsWith(args[i], <<"-">>)
    THEN FindArgs(args, i + 1, args[i], name_contains)
    ELSE FindArgs(args, i + 1, start, name_contains)

run_find(args, stdin, m) ==
    LET a == FindArgs(args, 1, <<".">>, <<>>)
        results == fs_find(a.start, m.cwd, a.name_contains)
    IN  Ret(IF results # <<>> THEN Join(results, <<"\n">>) \o <<"\n">> ELSE <<>>, <<>>, 0, m)

run_grep(args, stdin, m) ==
    LET dashes == {k \in 1..Len(args) : \A j \in 1..k : StartsWith(args[j], <<"-">>)}
        i == Cardinality(dashes)      \* number of leading option arguments
        ignore_case == \E k \in dashes : args[k] = Chars("-i")
        pattern == args[i + 1]
        inp == read_input(args, stdin, m, i + 1)
        Hit(line) == IF ignore_case THEN Contains(Lower(line), Lower(pattern))
                     ELSE Contains(line, pattern)
    IN  IF args = <<>> \/ i >= Len(args) THEN Ret(<<>>, Chars("grep: pattern required"), 1, m)
        ELSE IF inp.err # <<>> THEN Ret(<<>>, Chars("grep: ") \o inp.err, 1, m)
        ELSE Ret(JoinLines(SelectSeq(SplitLines(inp.text), Hit)), <<>>, 0, m)

run_findstr(args, stdin, m) == run_grep(args, stdin, m)

\* _parse_n(args, default): [n, rest]
parse_n(args, default) ==
    IF Len(args) >= 2 /\ args[1] = Chars("-n") /\ ParseInt(args[2]).ok
    THEN [n |-> IF ParseInt(args[2]).val < 0 THEN 0 ELSE ParseInt(args[2]).val,
          rest |-> SubSeq(args, 3, Len(args))]
    ELSE [n |-> default, rest |-> args]

run_head(args, stdin, m) ==
    LET pn == parse_n(args, 10)
        inp == read_input(pn.rest, stdin, m, 0)
        all == SplitLines(inp.text)
    IN  IF inp.err # <<>> THEN Ret(<<>>, Chars("head: ") \o inp.err, 1, m)
        ELSE Ret(JoinLines(SubSeq(all, 1, IF pn.n < Len(all) THEN pn.n ELSE Len(all))), <<>>, 0, m)

run_tail(args, stdin, m) ==
    LET pn == parse_n(args, 10)
        inp == read_input(pn.rest, stdin, m, 0)
        all == SplitLines(inp.text)
        from == IF pn.n >= Len(all) THEN 1 ELSE Len(all) - pn.n + 1
    IN  IF inp.err # <<>> THEN Ret(<<>>, Chars("tail: ") \o inp.err, 1, m)
        ELSE Ret(JoinLines(IF pn.n > 0 THEN SubSeq(all, from, Len(all)) ELSE <<>>), <<>>, 0, m)

run_wc(args, stdin, m) ==
    LET NotL(a) == a # Chars("-l")
        line_mode == (\E k \in 1..Len(args) : args[k] = Chars("-l")) \/ args = <<>>
        inp == read_input(SelectSeq(args, NotL), stdin, m, 0)
    IN  IF inp.err # <<>> THEN Ret(<<>>, Chars("wc: ") \o inp.err, 1, m)
        ELSE IF line_mode THEN Ret(IntToStr(Len(SplitLines(inp.text))) \o <<"\n">>, <<>>, 0, m)
        ELSE Ret(<<>>, Chars("wc: only -l is supported in MVP"), 1, m)

run_adb(args, stdin, m) ==
    LET logs == EnvGet(m.env, "ADB_LOGCAT", <<>>)
    IN  IF Len(args) >= 2 /\ args[1] = Chars("logcat") /\ args[2] = Chars("-d")
        THEN Ret(IF logs # <<>> /\ ~EndsWith(logs, <<"\n">>) THEN logs \o <<"\n">> ELSE logs,
                 <<>>, 0, m)
        ELSE Ret(<<>>, Chars("adb: only 'adb logcat -d' is supported in MVP"), 1, m)

\* the while loops of run_seq: the values from i on
RECURSIVE SeqValues(_, _, _)
SeqValues(i, end, step) ==
    IF (step > 0 /\ i <= end) \/ (step < 0 /\ i >= end)
    THEN <<IntToStr(i)>> \o SeqValues(i + step, end, step)
    ELSE <<>>

\* a variant of run_seq whose two-argument form always counts upwards
run_seq_ascending(args, stdin, m) ==
    LET n == Len(args)
        a1 == ParseInt(args[1])
        a2 == ParseInt(args[2])
        a3 == ParseInt(args[3])
        numeric == IF n = 1 THEN a1.ok
                   ELSE IF n = 2 THEN a1.ok /\ a2.ok
                   ELSE a1.ok /\ a2.ok /\ a3.ok
        start == IF n = 1 THEN 1 ELSE a1.val
        end == IF n = 1 THEN a1.val ELSE a2.val
        step == IF n \in {1, 2} THEN 1 ELSE a3.val
    IN  IF args = <<>> THEN Ret(<<>>, Chars("seq: start end [step] required"), 1, m)
        ELSE IF ~numeric THEN Ret(<<>>, Chars("seq: numeric arguments required"), 1, m)
        ELSE IF step = 0 THEN Ret(<<>>, Chars("seq: step must not be 0"), 1, m)
        ELSE Ret(JoinLines(SeqValues(start, end, step)), <<>>, 0, m)

run_seq(args, stdin, m) ==
    LET n == Len(args)
        a1 == ParseInt(args[1])
        a2 == ParseInt(args[2])
        a3 == ParseInt(args[3])
        numeric == IF n = 1 THEN a1.ok
                   ELSE IF n = 2 THEN a1.ok /\ a2.ok
                   ELSE a1.ok /\ a2.ok /\ a3.ok
        start == IF n = 1 THEN 1 ELSE a1.val
        end == IF n = 1 THEN a1.val ELSE a2.val
        step == IF n = 1 THEN 1
                ELSE IF n = 2 THEN (IF end >= start THEN 1 ELSE -1)
                ELSE a3.val
    IN  IF args = <<>> THEN Ret(<<>>, Chars("seq: start end [step] required"), 1, m)
        ELSE IF ~numeric THEN Ret(<<>>, Chars("seq: numeric arguments required"), 1, m)
        ELSE IF step = 0 THEN Ret(<<>>, Chars("seq: step must not be 0"), 1, m)
        ELSE Ret(JoinLines(SeqValues(start, end, step)), <<>>, 0, m)

\* shlex.quote(text) and shlex.join(parts)
ShlexSafe == WordChars \cup {"@", "%", "+", "=", ":", ",", ".", "/", "-"}
shlex_quote(text) ==
    IF text = <<>> THEN Chars("''")
    ELSE IF \A i \in 1..Len(text) : text[i] \in ShlexSafe THEN text
    ELSE <<"'">> \o Replace(text, <<"'">>, Chars("'\"'\"'")) \o <<"'">>
shlex_join(parts) == Join([k \in 1..Len(parts) |-> shlex_quote(parts[k])], <<" ">>)

(***************************************************************************)
(* commands/text.py: run_base64 (base64.b64encode, base64.b64decode)       *)
(***************************************************************************)
HexDigit(n) == SubSeq("0123456789ABCDEF", n + 1, n + 1)
\* chr(cp): the character itself where a TLA+ string can hold it, else its tag
CharOf(cp) ==
    IF cp \in 32..126 THEN Ascii[cp - 31]
    ELSE IF cp = 9 THEN "\t" ELSE IF cp = 10 THEN "\n" ELSE IF cp = 12 THEN "\f"
    ELSE IF cp = 13 THEN "\r"
    ELSE IF cp < 65536
    THEN "U+" \o HexDigit(cp \div 4096) \o HexDigit((cp \div 256) % 16)
              \o HexDigit((cp \div 16) % 16) \o HexDigit(cp % 16)
    ELSE "U+" \o HexDigit(cp \div 65536) \o HexDigit((cp \div 4096) % 16)
              \o HexDigit((cp \div 256) % 16) \o HexDigit((cp \div 16) % 16) \o HexDigit(cp % 16)

\* c.encode("utf-8") for one character, and text.encode("utf-8")
Utf8Char(c) ==
    LET cp == CodePoint(c)
    IN  IF cp < 128 THEN <<cp>>
        ELSE IF cp < 2048 THEN <<192 + (cp \div 64), 128 + (cp % 64)>>
        ELSE <<224 + (cp \div 4096), 128 + ((cp \div 64) % 64), 128 + (cp % 64)>>
Utf8Bytes(text) == Flatten([i \in 1..Len(text) |-> Utf8Char(text[i])], 1, Len(text))

\* raw.decode("utf-8", errors="replace"), from byte i on: an ill-formed
\* sequence gives U+FFFD for its longest well-formed prefix
RECURSIVE Utf8Decode(_, _)
Utf8Decode(raw, i) ==
    LET n == Len(raw)
        b == raw[i]
        Cont(k) == k <= n /\ raw[k] \in 128..191
        need == IF b \in 194..223 THEN 1 ELSE IF b \in 224..239 THEN 2
                ELSE IF b \in 240..244 THEN 3 ELSE 0
        second == IF b = 224 THEN 160..191 ELSE IF b = 237 THEN 128..159
                  ELSE IF b = 240 THEN 144..191 ELSE IF b = 244 THEN 128..143 ELSE 128..191
        ok2 == i + 1 <= n /\ raw[i + 1] \in second
        good == IF need = 0 \/ ~ok2 THEN 0
                ELSE IF need = 1 \/ ~Cont(i + 2) THEN 1
                ELSE IF need = 2 \/ ~Cont(i + 3) THEN 2 ELSE 3
        cp == IF need = 1 THEN ((b - 192) * 64) + (raw[i + 1] - 128)
              ELSE IF need = 2
              THEN ((b - 224) * 4096) + ((raw[i + 1] - 128) * 64) + (raw[i + 2] - 128)
              ELSE ((b - 240) * 262144) + ((raw[i + 1] - 128) * 4096)
                   + ((raw[i + 2] - 128) * 64) + (raw[i + 3] - 128)
    IN  IF i > n THEN <<>>
        ELSE IF b < 128 THEN <<CharOf(b)>> \o Utf8Decode(raw, i + 1)
        ELSE IF need > 0 /\ good = need THEN <<CharOf(cp)>> \o Utf8Decode(raw, i + need + 1)
        ELSE <<"U+FFFD">> \o Utf8Decode(raw, i + good + 1)

B64Alphabet == Chars("ABCDEFGHIJKLMNOPQRSTUVWXYZabcdefghijklmnopqrstuvwxyz0123456789+/")

\* base64.b64encode(raw).decode("utf-8")
b64encode(raw) ==
    LET n == Len(raw)
        At(k) == IF k <= n THEN raw[k] ELSE 0
        Group(g) ==
            LET k == 3 * g - 2
                b1 == At(k)
                b2 == At(k + 1)
                b3 == At(k + 2)
            IN  << B64Alphabet[(b1 \div 4) + 1],
                   B64Alphabet[((b1 % 4) * 16) + (b2 \div 16) + 1],
                   IF k + 1 <= n THEN B64Alphabet[((b2 % 16) * 4) + (b3 \div 64) + 1] ELSE "=",
                   IF k + 2 <= n THEN B64Alphabet[(b3 % 64) + 1] ELSE "=" >>
        groups == (n + 2) \div 3
    IN  Flatten([g \in 1..groups |-> Group(g)], 1, groups)

\* binascii.a2b_base64(data, strict_mode=False), from character i on:
\* [err, raw]; quad_pos, leftchar and pads are the decoder's registers
RECURSIVE A2bBase64(_, _, _, _, _, _)
A2bBase64(data, i, quad_pos, leftchar, pads, raw) ==
    LET c == data[i]
        known == \E k \in 1..64 : B64Alphabet[k] = c
        v == (CHOOSE k \in 1..64 : B64Alphabet[k] = c) - 1
    IN  IF i > Len(data)
        THEN (IF quad_pos = 0 THEN [err |-> <<>>, raw |-> raw]
              ELSE IF quad_pos = 1
              THEN [err |-> Chars("Invalid base64-encoded string: number of data characters (")
                            \o NatToStr(((Len(raw) \div 3) * 4) + 1)
                            \o Chars(") cannot be 1 more than a multiple of 4"),
                    raw |-> <<>>]
              ELSE [err |-> Chars("Incorrect padding"), raw |-> <<>>])
        ELSE IF c = "="
        THEN (IF quad_pos >= 2 /\ quad_pos + pads + 1 >= 4 THEN [err |-> <<>>, raw |-> raw]
              ELSE A2bBase64(data, i + 1, quad_pos, leftchar,
                             IF quad_pos >= 2 THEN pads + 1 ELSE pads, raw))
        ELSE IF ~known THEN A2bBase64(data, i + 1, quad_pos, leftchar, pads, raw)
        ELSE IF quad_pos = 0 THEN A2bBase64(data, i + 1, 1, v, 0, raw)
        ELSE IF quad_pos = 1
        THEN A2bBase64(data, i + 1, 2, v % 16, 0, Append(raw, (leftchar * 4) + (v \div 16)))
        ELSE IF quad_pos = 2
        THEN A2bBase64(data, i + 1, 3, v % 4, 0, Append(raw, (leftchar * 16) + (v \div 4)))
        ELSE A2bBase64(data, i + 1, 0, 0, 0, Append(raw, (leftchar * 64) + v))

IsDecodeFlag(a) == a \in {Chars("-d"), Chars("--decode")}
NotDecodeFlag(a) == ~IsDecodeFlag(a)
run_base64(args, stdin, m) ==
    LET decode == \E k \in 1..Len(args) : IsDecodeFlag(args[k])
        payload_args == SelectSeq(args, NotDecodeFlag)
        text == IF payload_args # <<>> THEN Strip(Join(payload_args, <<" ">>)) ELSE Strip(stdin)
        decoded == A2bBase64(text, 1, 0, 0, 0, <<>>)
    IN  IF text = <<>> THEN Ret(<<>>, Chars("base64: input required"), 1, m)
        ELSE IF decode
        THEN (IF decoded.err # <<>>
              THEN Ret(<<>>, Chars("base64: decode failed (") \o decoded.err \o <<")">>, 1, m)
              ELSE Ret(Utf8Decode(decoded.raw, 1) \o <<"\n">>, <<>>, 0, m))
        ELSE Ret(b64encode(Utf8Bytes(text)) \o <<"\n">>, <<>>, 0, m)

(***************************************************************************)
(* json.loads and json.dumps, for the JSON texts the model sends: objects, *)
(* arrays, strings without backslash escapes, integers, true, false and    *)
(* null, with whitespace between the tokens.                               *)
(* A value is [t, s, n, kids]: t the type, s the text of a string or of a  *)
(* literal, n the integer, kids the items of an array or the members       *)
(* [k, v] of an object in the order of the text.                           *)
(***************************************************************************)
JsonWs == {" ", "\t", "\n", "\r"}
JNone == [t |-> "none", s |-> <<>>, n |-> 0, kids |-> <<>>]
JStr(s) == [t |-> "str", s |-> s, n |-> 0, kids |-> <<>>]
JInt(n) == [t |-> "int", s |-> <<>>, n |-> n, kids |-> <<>>]
JLit(name) == [t |-> "lit", s |-> name, n |-> 0, kids |-> <<>>]
JArr(items) == [t |-> "arr", s |-> <<>>, n |-> 0, kids |-> items]
JObj(members) == [t |-> "obj", s |-> <<>>, n |-> 0, kids |-> members]
\* what the scanner returns: the value and the position after it
JFail == [ok |-> FALSE, v |-> JNone, next |-> 0]
JOk(v, next) == [ok |-> TRUE, v |-> v, next |-> next]

\* a string that starts with the quote at position i
JsonString(text, i) ==
    LET closing == {k \in (i + 1)..Len(text) : text[k] = "\""}
        Closed(j) == IF \E k \in (i + 1)..(j - 1) : text[k] \in {"\n", "\r", "\t"}
                     THEN JFail
                     ELSE JOk(JStr(SubSeq(text, i + 1, j - 1)), j + 1)
    IN  IF closing = {} THEN JFail ELSE Closed(Min(closing))

\* an integer that starts at position i: -?(0|[1-9][0-9]*)
JsonNumber(text, i) ==
    LET d == IF IsAt(text, i, {"-"}) THEN i + 1 ELSE i
        e == IF IsAt(text, d, {"0"}) THEN d + 1 ELSE SkipClass(text, d, Digits)
        n == DigitsToNat(SubSeq(text, d, e - 1), e - d)
    IN  IF e = d THEN JFail ELSE JOk(JInt(IF d > i THEN 0 - n ELSE n), e)

RECURSIVE JsonValue(_, _)
RECURSIVE JsonItems(_, _, _)
RECURSIVE JsonMembers(_, _, _)
\* the items of an array from position i on, i being the start of an item
JsonItems(text, i, items) ==
    LET After(r) ==
            LET j == SkipClass(text, r.next, JsonWs)
            IN  IF ~r.ok THEN JFail
                ELSE IF IsAt(text, j, {"]"}) THEN JOk(JArr(Append(items, r.v)), j + 1)
                ELSE IF IsAt(text, j, {","})
                THEN JsonItems(text, SkipClass(text, j + 1, JsonWs), Append(items, r.v))
                ELSE JFail
    IN  After(JsonValue(text, i))
\* the members of an object from position i on, i being the start of a key
JsonMembers(text, i, members) ==
    LET Valued(key, r) ==
            LET j == SkipClass(text, r.next, JsonWs)
                all == Append(members, [k |-> key.v.s, v |-> r.v])
            IN  IF ~r.ok THEN JFail
                ELSE IF IsAt(text, j, {"}"}) THEN JOk(JObj(all), j + 1)
                ELSE IF IsAt(text, j, {","})
                THEN JsonMembers(text, SkipClass(text, j + 1, JsonWs), all)
                ELSE JFail
        Keyed(key) ==
            LET c == SkipClass(text, key.next, JsonWs)
            IN  IF ~key.ok \/ ~IsAt(text, c, {":"}) THEN JFail
                ELSE Valued(key, JsonValue(text, SkipClass(text, c + 1, JsonWs)))
    IN  IF ~IsAt(text, i, {"\""}) THEN JFail ELSE Keyed(JsonString(text, i))
\* the value that starts at position i
JsonValue(text, i) ==
    IF i > Len(text) THEN JFail
    ELSE IF text[i] = "\"" THEN JsonString(text, i)
    ELSE IF text[i] = "{"
    THEN LET j == SkipClass(text, i + 1, JsonWs)
         IN  IF IsAt(text, j, {"}"}) THEN JOk(JObj(<<>>), j + 1)
             ELSE JsonMembers(text, j, <<>>)
    ELSE IF text[i] = "["
    THEN LET j == SkipClass(text, i + 1, JsonWs)
         IN  IF IsAt(text, j, {"]"}) THEN JOk(JArr(<<>>), j + 1)
             ELSE JsonItems(text, j, <<>>)
    ELSE IF StartsWithAt(text, Chars("true"), i) THEN JOk(JLit(Chars("true")), i + 4)
    ELSE IF StartsWithAt(text, Chars("false"), i) THEN JOk(JLit(Chars("false")), i + 5)
    ELSE IF StartsWithAt(text, Chars("null"), i) THEN JOk(JLit(Chars("null")), i + 4)
    ELSE JsonNumber(text, i)

\* json.loads(text): [ok, v]; ok = FALSE is the JSONDecodeError
json_loads(text) ==
    LET Ended(r) == IF r.ok /\ SkipClass(text, r.next, JsonWs) = Len(text) + 1
                    THEN [ok |-> TRUE, v |-> r.v]
                    ELSE [ok |-> FALSE, v |-> JNone]
    IN  Ended(JsonValue(text, SkipClass(text, 1, JsonWs)))

\* body.get(key, ""): the value of the last member with that key
JsonGet(obj, key) ==
    LET at == {i \in 1..Len(obj.kids) : obj.kids[i].k = key}
    IN  IF at = {} THEN JStr(<<>>) ELSE obj.kids[Max(at)].v

\* str(value) for a string, an integer, True, False and None
PyStr(v) ==
    CASE v.t = "str" -> v.s
      [] v.t = "int" -> IntToStr(v.n)
      [] v.t = "lit" /\ v.s = Chars("true") -> Chars("True")
      [] v.t = "lit" /\ v.s = Chars("false") -> Chars("False")
      [] v.t = "lit" /\ v.s = Chars("null") -> Chars("None")

\* json.dumps(text, ensure_ascii=False) of a string
JsonQuote(text) ==
    LET Esc(c) == CASE c = "\"" -> <<"\\", "\"">>
                    [] c = "\\" -> <<"\\", "\\">>
                    [] c = "\n" -> <<"\\", "n">>
                    [] c = "\r" -> <<"\\", "r">>
                    [] c = "\t" -> <<"\\", "t">>
                    [] OTHER -> <<c>>
    IN  <<"\"">> \o Flatten([i \in 1..Len(text) |-> Esc(text[i])], 1, Len(text)) \o <<"\"">>

(***************************************************************************)
(* levels/level4_5.py: the webhook receiver and the tracking route.  The   *)
(* module keeps _STATE, the processed event ids and the parcel status, for *)
(* all sessions; in the model it travels with the context as m.hooks, and  *)
(* the clock (time.time()) is m.now.                                       *)
(***************************************************************************)
TIMESTAMP_WINDOW_SEC == 300
LEVEL4_5_FLAG == Chars("FLAG{SIGNED_WEBHOOKS_STILL_FAIL_IF_SECRET_LEAKS}")
PARTNER_WEBHOOK_SECRET == Chars("whsec_live_b13df4ae")
JNull == JLit(Chars("null"))
\* _STATE as the module is loaded
InitialHooks ==
    [processedEventIds |-> {},
     parcelStatus |-> [p \in {Chars("PD-1004")} |->
                          [status |-> Chars("in_transit"), source |-> Chars("system"),
                           receipt |-> JNull]]]

\* _hmac_sha256_hex(secret, message).  Of HMAC-SHA256 the model keeps that
\* the digest is a hexadecimal text fixed by the secret and the message,
\* different for different messages: the bytes of both, in hexadecimal.
hmac_sha256_hex(secret, message) ==
    LET raw == Utf8Bytes(secret \o <<":">> \o message)
    IN  Lower(Flatten([i \in 1..Len(raw) |->
                          <<HexDigit(raw[i] \div 16), HexDigit(raw[i] % 16)>>], 1, Len(raw)))
compute_signature(secret, timestamp, raw_body) ==
    Chars("sha256=") \o hmac_sha256_hex(secret, timestamp \o <<".">> \o raw_body)

\* headers.get(key), None read as ""
HeaderGet(headers, key) ==
    LET at == {i \in 1..Len(headers) : headers[i].k = Chars(key)}
    IN  IF at = {} THEN <<>> ELSE headers[Min(at)].v

\* what a handler returns: the response, or the exception it raises (exc,
\* with its message in err), and the context as it leaves it
Responded(status, body, m) ==
    [exc |-> "", err |-> <<>>, resp |-> HttpResponse(status, DefaultHeaders, body), m |-> m]
Thrown(exc, msg, m) ==
    [exc |-> exc, err |-> msg, resp |-> HttpResponse(0, <<>>, <<>>), m |-> m]
ErrorBody(code, message) ==
    Chars("{\"ok\":false,\"error\":{\"code\":\"") \o Chars(code) \o Chars("\",\"message\":\"")
        \o message \o Chars("\"}}")

\* a receiver that takes no event id for processed
NeverProcessed(event_text, hooks) == FALSE
\* event_text in _STATE["processedEventIds"]
IsProcessed(event_text, hooks) == event_text \in hooks.processedEventIds

\* receive_webhook_payload(timestamp, event_id, signature, raw_body, now_ts)
\* with the response _shell_http_router makes of it
receive_webhook_payload(timestamp, event_id, signature, raw_body, m) ==
    LET ts_text == Strip(timestamp)
        event_text == Strip(event_id)
        sig_text == Strip(signature)
        Credited(hooks) == Responded(200,
            Chars("{\"ok\":true,\"data\":{\"accepted\":true,\"credited\":true}}"),
            [m EXCEPT !.hooks = hooks])
        Delivered(hooks, parcel_id) ==
            Credited([hooks EXCEPT !.parcelStatus =
                        [p \in DOMAIN @ \cup {parcel_id} |->
                            IF p = parcel_id
                            THEN [status |-> Chars("delivered"), source |-> Chars("webhook"),
                                  receipt |-> JStr(event_text)]
                            ELSE @[p]]])
        Typed(hooks, event_type, parcel_id) ==
            IF event_type = Chars("parcel.delivered") /\ parcel_id # <<>>
            THEN Delivered(hooks, parcel_id)
            ELSE Credited(hooks)
        \* the event id is recorded before the body is read
        Recorded(hooks, body) ==
            IF body.t # "obj"
            THEN Thrown("AttributeError", Chars("object has no attribute 'get'"),
                        [m EXCEPT !.hooks = hooks])
            ELSE Typed(hooks, Strip(PyStr(JsonGet(body, Chars("type")))),
                       Strip(PyStr(JsonGet(body, Chars("parcel_id")))))
        Loaded(loaded) ==
            IF ~loaded.ok
            THEN Responded(400, ErrorBody("BAD_JSON", Chars("invalid json body")), m)
            ELSE IF IsProcessed(event_text, m.hooks)
            THEN Responded(200,
                   Chars("{\"ok\":true,\"data\":{\"accepted\":true,\"credited\":false,\"duplicate\":true}}"),
                   m)
            ELSE Recorded([m.hooks EXCEPT !.processedEventIds = @ \cup {event_text}], loaded.v)
        Windowed(parsed) ==
            IF ~parsed.ok
               \/ (IF m.now >= parsed.val THEN m.now - parsed.val ELSE parsed.val - m.now)
                      > TIMESTAMP_WINDOW_SEC
            THEN Responded(401, ErrorBody("STALE_WEBHOOK", Chars("timestamp out of window")), m)
            \* hmac.compare_digest refuses a str that is not ASCII
            ELSE IF \E i \in 1..Len(sig_text) : Utf8Width(sig_text[i]) > 1
            THEN Thrown("TypeError",
                        Chars("comparing strings with non-ASCII characters is not supported"), m)
            ELSE IF sig_text # compute_signature(PARTNER_WEBHOOK_SECRET, ts_text, raw_body)
            THEN Responded(401, ErrorBody("BAD_SIGNATURE", Chars("signature mismatch")), m)
            ELSE Loaded(json_loads(IF raw_body = <<>> THEN Chars("{}") ELSE raw_body))
    IN  IF ts_text = <<>> \/ event_text = <<>> \/ sig_text = <<>>
        THEN Responded(400, ErrorBody("VALIDATION_ERROR",
                                      Chars("required webhook headers missing")), m)
        ELSE Windowed(ParseInt(ts_text))

\* json.dumps of track_payload(parcel_id)
track_payload(parcel_id, hooks) ==
    LET stripped == Strip(parcel_id)
        pid == IF stripped = <<>> THEN Chars("PD-1004") ELSE stripped
        st == IF pid \in DOMAIN hooks.parcelStatus THEN hooks.parcelStatus[pid]
              ELSE [status |-> Chars("unknown"), source |-> Chars("none"), receipt |-> JNull]
        receipt == IF st.receipt.t = "str" THEN JsonQuote(st.receipt.s) ELSE Chars("null")
        flag == IF st.status = Chars("delivered") /\ st.source = Chars("webhook")
                THEN Chars(",\"flag\":") \o JsonQuote(LEVEL4_5_FLAG) ELSE <<>>
    IN  Chars("{\"ok\":true,\"data\":{\"parcel_id\":") \o JsonQuote(pid)
            \o Chars(",\"status\":") \o JsonQuote(st.status)
            \o Chars(",\"source\":") \o JsonQuote(st.source)
            \o Chars(",\"meta\":{\"receipt\":") \o receipt \o flag \o Chars("}}}")

\* _is_auth_ok(headers, ctx)
is_auth_ok(headers, m) ==
    LET expected == Strip(EnvGet(m.env, "SESSION_TOKEN", <<>>))
        auth == HeaderGet(headers, "authorization")
    IN  /\ expected # <<>>
        /\ StartsWith(Lower(auth), Chars("bearer "))
        /\ Strip(SubSeq(auth, FindChar(auth, " ") + 1, Len(auth))) = expected

\* (parse_qs(query).get(key) or [default])[0], for a query without percent
\* escapes: the first non-blank value of the key
QueryFirst(query, key, default) ==
    LET pairs == SplitOn(query, "&")
        Name(pair) == IF FindChar(pair, "=") = 0 THEN <<>>
                      ELSE SubSeq(pair, 1, FindChar(pair, "=") - 1)
        Value(pair) == Replace(SubSeq(pair, FindChar(pair, "=") + 1, Len(pair)), <<"+">>, <<" ">>)
        at == {i \in 1..Len(pairs) :
                  /\ FindChar(pairs[i], "=") > 0
                  /\ Replace(Name(pairs[i]), <<"+">>, <<" ">>) = Chars(key)
                  /\ Value(pairs[i]) # <<>>}
    IN  IF at = {} THEN default ELSE Value(pairs[Min(at)])

WebhookSpecBody ==
    Chars("{\"ok\":true,\"data\":{\"headers\":{\"timestamp\":\"X-Webhook-Timestamp\",")
    \o Chars("\"signature\":\"X-Webhook-Signature\",\"eventId\":\"X-Webhook-Event-Id\"},")
    \o Chars("\"signature\":{\"alg\":\"HMAC-SHA256\",\"format\":\"sha256=<hex>\",")
    \o Chars("\"signingString\":\"<timestamp>.<raw_body>\"},\"timestampWindowSec\":300,")
    \o Chars("\"sampleBody\":{\"type\":\"parcel.delivered\",\"parcel_id\":\"PD-1004\",")
    \o Chars("\"delivered_at\":1739999999,\"meta\":{\"courier\":\"PurpleDroid\"}}}}")

\* _shell_http_router(method, path, query, headers, body, ctx)
shell_http_router(method, path, query, headers, body, m) ==
    LET actions == Chars("/api/v1/challenges/level4_5/actions/")
    IN  IF method = Chars("GET") /\ path = actions \o Chars("webhook/spec")
        THEN Responded(200, WebhookSpecBody, m)
        ELSE IF method = Chars("POST") /\ path = actions \o Chars("webhook/receive")
        THEN receive_webhook_payload(HeaderGet(headers, "x-webhook-timestamp"),
                                     HeaderGet(headers, "x-webhook-event-id"),
                                     HeaderGet(headers, "x-webhook-signature"), body, m)
        ELSE IF method = Chars("GET") /\ path = actions \o Chars("track")
        THEN IF ~is_auth_ok(headers, m)
             THEN Responded(401, ErrorBody("UNAUTHORIZED",
                     Chars("Authorization: Bearer <token> ")
                         \o <<"U+C774", " ", "U+D544", "U+C694", "U+D574", ".">>), m)
             ELSE Responded(200,
                     track_payload(QueryFirst(query, "parcel_id", Chars("PD-1004")), m.hooks), m)
        ELSE Responded(404, ErrorBody("NOT_FOUND", Chars("route not found")), m)

\* The route table FakeShell is constructed with (http_routes): static
\* response descriptors by route key.
HttpRoutes ==
    { [key |-> Chars("GET:/health"), handler |-> "", status |-> 200, headers |-> DefaultHeaders,
       body |-> Chars("{\"ok\":true}")],
      [key |-> Chars("GET:/parcels?id=7"), handler |-> "", status |-> 200, headers |-> DefaultHeaders,
       body |-> Chars("{\"id\":7}")],
      [key |-> Chars("GET:/parcels"), handler |-> "", status |-> 200, headers |-> DefaultHeaders,
       body |-> Chars("{\"items\":[]}\n")],
      [key |-> Chars("POST:/parcels"), handler |-> "", status |-> 403, headers |-> DefaultHeaders,
       body |-> Chars("{\"ok\":false}")] }

\* http_routes of the level 4-5 shell: {"*": _shell_http_router}
Level45Routes ==
    { [key |-> <<"*">>, handler |-> "_shell_http_router", status |-> 0, headers |-> <<>>,
       body |-> <<>>] }

HasRoute(routes, key) == \E r \in routes : r.key = key
RouteAt(routes, key) == CHOOSE r \in routes : r.key = key

\* route(method, path, query, headers, body, ctx) for a callable route
CallRoute(handler, method, path, query, headers, body, m) ==
    CASE handler = "_shell_http_router" ->
             shell_http_router(method, path, query, headers, body, m)

\* method.upper(), parsed.path or "/", parsed.query and the two keys built
\* from them
request_keys(parsed, method0) ==
    LET Keyed(method, path, query) ==
            [method |-> method, path |-> path, query |-> query,
             key_query |-> IF query # <<>>
                           THEN method \o <<":">> \o path \o <<"?">> \o query ELSE <<>>,
             key_path |-> method \o <<":">> \o path]
    IN  Keyed(Upper(IF method0 = <<>> THEN Chars("GET") ELSE method0),
              IF parsed.path = <<>> THEN <<"/">> ELSE parsed.path,
              parsed.query)

\* a variant of the lookup that tries the METHOD:path entry before the
\* METHOD:path?query entry
request_lookup_path_first(routes, k) ==
    IF HasRoute(routes, k.key_path) THEN [found |-> TRUE, key |-> k.key_path]
    ELSE IF k.key_query # <<>> /\ HasRoute(routes, k.key_query)
    THEN [found |-> TRUE, key |-> k.key_query]
    ELSE IF HasRoute(routes, <<"*">>) THEN [found |-> TRUE, key |-> <<"*">>]
    ELSE [found |-> FALSE, key |-> <<>>]

\* the entry request answers with: key_query if there is a query and the
\* table has it, else key_path, else "*"
request_lookup(routes, k) ==
    IF k.key_query # <<>> /\ HasRoute(routes, k.key_query)
    THEN [found |-> TRUE, key |-> k.key_query]
    ELSE IF HasRoute(routes, k.key_path) THEN [found |-> TRUE, key |-> k.key_path]
    ELSE IF HasRoute(routes, <<"*">>) THEN [found |-> TRUE, key |-> <<"*">>]
    ELSE [found |-> FALSE, key |-> <<>>]

\* a callable route is called, a static one is returned as it is
request_answer(r, k, headers, body, m) ==
    IF r.handler # ""
    THEN CallRoute(r.handler, k.method, k.path, k.query, headers, body, m)
    ELSE [exc |-> "", err |-> <<>>, resp |-> HttpResponse(r.status, r.headers, r.body),
          m |-> m]

request_routed(parsed, k, hit, routes, headers, body, m) ==
    IF parsed.err # <<>>
    THEN [exc |-> "ValueError", err |-> parsed.err,
          resp |-> HttpResponse(0, <<>>, <<>>), m |-> m]
    ELSE IF hit.found THEN request_answer(RouteAt(routes, hit.key), k, headers, body, m)
    ELSE [exc |-> "", err |-> <<>>,
          resp |-> HttpResponse(404, DefaultHeaders,
                     Chars("{\"ok\":false,\"error\":{\"code\":\"NOT_FOUND\",\"message\":\"route not found\"}}")),
          m |-> m]

request_parsed_path_first(parsed, routes, method0, headers, body, m) ==
    request_routed(parsed, request_keys(parsed, method0),
                   request_lookup_path_first(routes, request_keys(parsed, method0)),
                   routes, headers, body, m)

request_parsed(parsed, routes, method0, headers, body, m) ==
    request_routed(parsed, request_keys(parsed, method0),
                   request_lookup(routes, request_keys(parsed, method0)),
                   routes, headers, body, m)

\* a variant of request that looks the METHOD:path entry up before the
\* METHOD:path?query entry
request_path_first(routes, method0, url, headers, body, m) ==
    request_parsed_path_first(urlparse(url), routes, method0, headers, body, m)

\* VirtualHTTP(routes).request(method, url, headers, body, ctx):
\* [exc, err, resp, m]; exc is the type of an exception that escapes (the
\* ValueError of urlparse, or what a callable route raises)
request(routes, method0, url, headers, body, m) ==
    request_parsed(urlparse(url), routes, method0, headers, body, m)

\* headers[k] = v on a dict kept as a list of [k, v] in insertion order
SetHeader(headers, k, v) ==
    IF \E i \in 1..Len(headers) : headers[i].k = k
    THEN [i \in 1..Len(headers) |-> IF headers[i].k = k THEN [k |-> k, v |-> v] ELSE headers[i]]
    ELSE Append(headers, [k |-> k, v |-> v])

\* the loop of _parse_curl_args from argument i on; a is
\* [method, url, headers, body, show_headers]
RECURSIVE CurlArgs(_, _, _)
CurlArgs(args, i, a) ==
    IF i > Len(args) THEN a
    ELSE LET token == args[i]
             more == i + 1 <= Len(args)
             raw == args[i + 1]
             colon == FindChar(raw, ":")
         IN  IF token \in {Chars("-v"), Chars("-i"), Chars("--include")}
             THEN CurlArgs(args, i + 1, [a EXCEPT !.show_headers = TRUE])
             ELSE IF token = Chars("-X") /\ more
             THEN CurlArgs(args, i + 2, [a EXCEPT !.method = Upper(raw)])
             ELSE IF token \in {Chars("-H"), Chars("--header")} /\ more
             THEN CurlArgs(args, i + 2,
                    IF colon > 0
                    THEN [a EXCEPT !.headers =
                            SetHeader(@, Lower(Strip(SubSeq(raw, 1, colon - 1))),
                                         Strip(SubSeq(raw, colon + 1, Len(raw))))]
                    ELSE a)
             ELSE IF token \in {Chars("-d"), Chars("--data"), Chars("--data-raw")} /\ more
             THEN CurlArgs(args, i + 2,
                    [a EXCEPT !.body = raw,
                              !.method = IF @ = Chars("GET") THEN Chars("POST") ELSE @])
             ELSE IF ~StartsWith(token, <<"-">>) /\ a.url = <<>>
             THEN CurlArgs(args, i + 1, [a EXCEPT !.url = token])
             ELSE CurlArgs(args, i + 1, a)

parse_curl_args(args) ==
    CurlArgs(args, 1, [method |-> Chars("GET"), url |-> <<>>, headers |-> <<>>,
                       body |-> <<>>, show_headers |-> FALSE])

\* text.rstrip("\n")
RStripNewline(text) ==
    LET keep == {i \in 1..Len(text) : text[i] # "\n"}
    IN  IF keep = {} THEN <<>> ELSE SubSeq(text, 1, Max(keep))

\* the lines of curl -i: status line, headers, "<" and the body
curl_lines(resp, out_body) ==
    <<Chars("< HTTP/1.1 ") \o IntToStr(resp.status) \o <<" ">> \o status_text(resp.status)>>
    \o [k \in 1..Len(resp.headers) |->
           Chars("< ") \o resp.headers[k].k \o Chars(": ") \o resp.headers[k].v]
    \o <<Chars("<"), RStripNewline(out_body)>>

curl_shown(show_headers, resp, out_body, left) ==
    IF ~show_headers THEN Ret(out_body, <<>>, 0, left)
    ELSE Ret(Join(curl_lines(resp, out_body), <<"\n">>) \o <<"\n">>, <<>>, 0, left)

curl_answered(show_headers, rq) ==
    IF rq.exc # "" THEN Raise(rq.exc, rq.err, rq.m)
    ELSE curl_shown(show_headers, rq.resp,
                    IF rq.resp.body # <<>> /\ ~EndsWith(rq.resp.body, <<"\n">>)
                    THEN rq.resp.body \o <<"\n">> ELSE rq.resp.body,
                    rq.m)

curl_parsed(a, m) ==
    IF a.url = <<>> THEN Ret(<<>>, Chars("curl: URL required"), 1, m)
    ELSE curl_answered(a.show_headers,
                       request(m.routes, a.method, a.url, a.headers, a.body, m))

run_curl(args, stdin, m) == curl_parsed(parse_curl_args(args), m)

(***************************************************************************)
(* __init__.py: FakeShell                                                  *)
(*                                                                         *)
(* m, the context threaded through one execute call, is                    *)
(*   [env, cwd, allowed, shellAllowed, slow, nrun, ncall, depth, log]      *)
(* env, cwd and allowed are the fields of ShellContext, shellAllowed is    *)
(* FakeShell.allowed, slow is the set of builtin invocations (numbered in  *)
(* the order they start) whose own work takes longer than                  *)
(* MAX_COMMAND_SECONDS (a stage's elapsed time also spans the invocations   *)
(* nested in it), nrun                                                     *)
(* and ncall count the builtin invocations and the execute calls so far,   *)
(* depth is the nesting of the running execute call and log is the list    *)
(* of events so far.                                                       *)
(***************************************************************************)
COMMANDS == {Chars("echo"), Chars("help"), Chars("whoami"), Chars("pwd"), Chars("cd"),
             Chars("ls"), Chars("cat"), Chars("find"), Chars("grep"), Chars("findstr"),
             Chars("head"), Chars("tail"), Chars("wc"), Chars("seq"), Chars("xargs"),
             Chars("curl"), Chars("adb")}

Event(ev, call, depth, chain, stage, argv, text, out, err, code, allowed, dir) ==
    [ev |-> ev, call |-> call, depth |-> depth, chain |-> chain, stage |-> stage,
     argv |-> argv, text |-> text, out |-> out, err |-> err, code |-> code,
     allowed |-> allowed, cwd |-> dir]
Log(m, e) == [m EXCEPT !.log = Append(@, e)]

\* The nested calls.  A function's body is evaluated in the context of its
\* definition and not in that of the call, so a call made through one of
\* these functions does not slow down with the depth of the calls around it.
RECURSIVE execute(_, _)
RECURSIVE XargsLoop(_, _, _, _, _, _, _, _)
RECURSIVE ForLoopIter(_, _, _, _, _, _, _, _, _, _)
ExecuteAt == [a \in Any |-> execute(a[1], a[2])]
XargsLoopAt == [a \in Any |-> XargsLoop(a[1], a[2], a[3], a[4], a[5], a[6], a[7], a[8])]
ForLoopIterAt ==
    [a \in Any |-> ForLoopIter(a[1], a[2], a[3], a[4], a[5], a[6], a[7], a[8], a[9], a[10])]

run_xargs(args, stdin, m) ==
    LET flagged == {k \in 0..(Len(args) \div 2) :
                      \A j \in 1..k : args[2 * j - 1] = Chars("-I") /\ 2 * j <= Len(args)}
        pairs == Max(flagged)        \* number of leading "-I token" pairs
        placeholder == IF pairs = 0 THEN Chars("{}") ELSE args[2 * pairs]
        cmd_template == SubSeq(args, 2 * pairs + 1, Len(args))
        tokens == SplitWhitespace(Replace(stdin, <<"\r">>, <<"\n">>))
    IN  IF Strip(stdin) = <<>> THEN Ret(<<>>, Chars("xargs: stdin required"), 1, m)
        ELSE IF args = <<>> \/ cmd_template = <<>>
        THEN Ret(<<>>, Chars("xargs: command required"), 1, m)
        ELSE IF tokens = <<>> THEN Ret(<<>>, <<>>, 0, m)
        ELSE XargsLoop(tokens, 1, cmd_template, placeholder, m, <<>>, <<>>, 0)

\* the loop over the tokens in run_xargs, from token i on
XargsLoop(tokens, i, cmd_template, placeholder, m, outs, errs, last_code) ==
    IF i > Len(tokens) THEN Ret(outs, errs, last_code, m)
    ELSE LET rendered_args == [k \in 1..Len(cmd_template) |->
                                  Replace(cmd_template[k], placeholder, tokens[i])]
             After(r) == IF r.exc # "" THEN r
                         ELSE XargsLoopAt[<<tokens, i + 1, cmd_template, placeholder, r.m,
                                            outs \o r.out, errs \o r.err, r.code>>]
         IN  After(ExecuteAt[<<shlex_join(rendered_args), m>>])

\* COMMANDS.get(cmd) applied to (args, stdin, ctx)
RunBuiltin(cmd, args, stdin, m) ==
    CASE cmd = Chars("echo") -> run_echo(args, stdin, m)
      [] cmd = Chars("help") -> run_help(args, stdin, m)
      [] cmd = Chars("whoami") -> run_whoami(args, stdin, m)
      [] cmd = Chars("pwd") -> run_pwd(args, stdin, m)
      [] cmd = Chars("cd") -> run_cd(args, stdin, m)
      [] cmd = Chars("ls") -> run_ls(args, stdin, m)
      [] cmd = Chars("cat") -> run_cat(args, stdin, m)
      [] cmd = Chars("find") -> run_find(args, stdin, m)
      [] cmd = Chars("grep") -> run_grep(args, stdin, m)
      [] cmd = Chars("findstr") -> run_findstr(args, stdin, m)
      [] cmd = Chars("head") -> run_head(args, stdin, m)
      [] cmd = Chars("tail") -> run_tail(args, stdin, m)
      [] cmd = Chars("wc") -> run_wc(args, stdin, m)
      [] cmd = Chars("seq") -> run_seq(args, stdin, m)
      [] cmd = Chars("xargs") -> run_xargs(args, stdin, m)
      [] cmd = Chars("curl") -> run_curl(args, stdin, m)
      [] cmd = Chars("adb") -> run_adb(args, stdin, m)

\* a _run_stage that dispatches without looking at ctx.allowed
run_stage_unguarded(tokens, stdin, m, call, chain, stage) ==
    LET cmd == tokens[1]
        args == SubSeq(tokens, 2, Len(tokens))
        Done(r) == [r EXCEPT !.m = Log(r.m, Event("stage", call, m.depth, chain, stage, tokens,
                                                   stdin, r.out, r.err, r.code, r.m.allowed, r.m.cwd))]
        ord == m.nrun + 1
        \* what the builtin returned, kept when the timeout replaces it
        Returned(r) == Event("timeout", call, m.depth, chain, stage, tokens, stdin, r.out, r.err,
                             r.code, r.m.allowed, r.m.cwd)
        started == Log([m EXCEPT !.nrun = ord],
                       Event("run", call, m.depth, chain, stage, tokens, stdin, <<>>, <<>>, ord,
                             m.allowed, m.cwd))
        After(r) ==
            IF r.exc # "" THEN r
            ELSE IF \E k \in ord..r.m.nrun : k \in m.slow
            THEN Done(Ret(<<>>, Chars("command timeout: ") \o cmd, 124,
                          Log(r.m, Returned(r))))
            ELSE Done(r)
    IN  IF tokens = <<>> THEN Done(Ret(<<>>, <<>>, 0, m))
        ELSE IF cmd \notin COMMANDS
        THEN Done(Ret(<<>>, Chars("command not found: ") \o cmd, 127, m))
        ELSE After(RunBuiltin(cmd, args, stdin, started))

\* a _run_stage that undoes what the builtin did to the context when the
\* timeout replaces its result
run_stage_rollback(tokens, stdin, m, call, chain, stage) ==
    LET cmd == tokens[1]
        args == SubSeq(tokens, 2, Len(tokens))
        Done(r) == [r EXCEPT !.m = Log(r.m, Event("stage", call, m.depth, chain, stage, tokens,
                                                   stdin, r.out, r.err, r.code, r.m.allowed, r.m.cwd))]
        ord == m.nrun + 1
        Returned(r) == Event("timeout", call, m.depth, chain, stage, tokens, stdin, r.out, r.err,
                             r.code, r.m.allowed, r.m.cwd)
        started == Log([m EXCEPT !.nrun = ord],
                       Event("run", call, m.depth, chain, stage, tokens, stdin, <<>>, <<>>, ord,
                             m.allowed, m.cwd))
        After(r) ==
            IF r.exc # "" THEN r
            ELSE IF \E k \in ord..r.m.nrun : k \in m.slow
            THEN Done(Ret(<<>>, Chars("command timeout: ") \o cmd, 124,
                          [Log(r.m, Returned(r)) EXCEPT !.cwd = m.cwd, !.hooks = m.hooks]))
            ELSE Done(r)
    IN  IF tokens = <<>> THEN Done(Ret(<<>>, <<>>, 0, m))
        ELSE IF cmd \notin m.allowed
        THEN Done(Ret(<<>>, Chars("command not allowed: ") \o cmd, 126, m))
        ELSE IF cmd \notin COMMANDS
        THEN Done(Ret(<<>>, Chars("command not found: ") \o cmd, 127, m))
        ELSE After(RunBuiltin(cmd, args, stdin, started))

\* a variant of _run_stage that looks the builtin up before it consults the
\* allowlist
run_stage_lookup_first(tokens, stdin, m, call, chain, stage) ==
    LET cmd == tokens[1]
        args == SubSeq(tokens, 2, Len(tokens))
        Done(r) == [r EXCEPT !.m = Log(r.m, Event("stage", call, m.depth, chain, stage, tokens,
                                                   stdin, r.out, r.err, r.code, r.m.allowed, r.m.cwd))]
        ord == m.nrun + 1
        Returned(r) == Event("timeout", call, m.depth, chain, stage, tokens, stdin, r.out, r.err,
                             r.code, r.m.allowed, r.m.cwd)
        started == Log([m EXCEPT !.nrun = ord],
                       Event("run", call, m.depth, chain, stage, tokens, stdin, <<>>, <<>>, ord,
                             m.allowed, m.cwd))
        After(r) ==
            IF r.exc # "" THEN r
            ELSE IF \E k \in ord..r.m.nrun : k \in m.slow
            THEN Done(Ret(<<>>, Chars("command timeout: ") \o cmd, 124,
                          Log(r.m, Returned(r))))
            ELSE Done(r)
    IN  IF tokens = <<>> THEN Done(Ret(<<>>, <<>>, 0, m))
        ELSE IF cmd \notin COMMANDS
        THEN Done(Ret(<<>>, Chars("command not found: ") \o cmd, 127, m))
        ELSE IF cmd \notin m.allowed
        THEN Done(Ret(<<>>, Chars("command not allowed: ") \o cmd, 126, m))
        ELSE After(RunBuiltin(cmd, args, stdin, started))

\* FakeShell._run_stage(tokens, stdin, ctx), as stage number `stage` of
\* chain number `chain` of the execute call `call`
run_stage(tokens, stdin, m, call, chain, stage) ==
    LET cmd == tokens[1]
        args == SubSeq(tokens, 2, Len(tokens))
        Done(r) == [r EXCEPT !.m = Log(r.m, Event("stage", call, m.depth, chain, stage, tokens,
                                                   stdin, r.out, r.err, r.code, r.m.allowed, r.m.cwd))]
        ord == m.nrun + 1
        \* what the builtin returned, kept when the timeout replaces it
        Returned(r) == Event("timeout", call, m.depth, chain, stage, tokens, stdin, r.out, r.err,
                             r.code, r.m.allowed, r.m.cwd)
        started == Log([m EXCEPT !.nrun = ord],
                       Event("run", call, m.depth, chain, stage, tokens, stdin, <<>>, <<>>, ord,
                             m.allowed, m.cwd))
        After(r) ==
            IF r.exc # "" THEN r
            ELSE IF \E k \in ord..r.m.nrun : k \in m.slow   \* elapsed spans the nested runs
            THEN Done(Ret(<<>>, Chars("command timeout: ") \o cmd, 124,
                          Log(r.m, Returned(r))))
            ELSE Done(r)
    IN  IF tokens = <<>> THEN Done(Ret(<<>>, <<>>, 0, m))
        ELSE IF cmd \notin m.allowed
        THEN Done(Ret(<<>>, Chars("command not allowed: ") \o cmd, 126, m))
        ELSE IF cmd \notin COMMANDS
        THEN Done(Ret(<<>>, Chars("command not found: ") \o cmd, 127, m))
        ELSE After(RunBuiltin(cmd, args, stdin, started))

\* a loop over the stages that pipes a failing stage's stdout forward
RECURSIVE RunPipelineThrough(_, _, _, _, _, _, _)
RunPipelineThrough(pipeline, j, stdin, m, call, chain, prev) ==
    IF j > Len(pipeline) THEN [prev EXCEPT !.m = m]
    ELSE LET After(r) == IF r.exc # "" THEN r
                         ELSE RunPipelineThrough(pipeline, j + 1, r.out, r.m, call, chain, r)
         IN  After(run_stage(pipeline[j], stdin, m, call, chain, j))

\* a loop over the stages that keeps the stderr of the stages before
RECURSIVE RunPipelineAccumulating(_, _, _, _, _, _, _)
RunPipelineAccumulating(pipeline, j, stdin, m, call, chain, prev) ==
    IF j > Len(pipeline) THEN [prev EXCEPT !.m = m]
    ELSE LET Kept(r) == [r EXCEPT !.err = prev.err \o @]
             After(r) == IF r.exc # "" \/ r.code # 0 THEN Kept(r)
                         ELSE RunPipelineAccumulating(pipeline, j + 1, r.out, r.m, call, chain,
                                                      Kept(r))
         IN  After(run_stage(pipeline[j], stdin, m, call, chain, j))

\* the loop over the stages of one pipeline in execute, from stage j on
RECURSIVE RunPipeline(_, _, _, _, _, _, _)
RunPipeline(pipeline, j, stdin, m, call, chain, prev) ==
    IF j > Len(pipeline) THEN [prev EXCEPT !.m = m]
    ELSE LET After(r) == IF r.exc # "" \/ r.code # 0 THEN r
                         ELSE RunPipeline(pipeline, j + 1, r.out, r.m, call, chain, r)
         IN  After(run_stage(pipeline[j], stdin, m, call, chain, j))

\* a loop over the chains that goes on after a failing chain
RECURSIVE RunChainsThrough(_, _, _, _, _)
RunChainsThrough(chains, c, m, call, last) ==
    IF c > Len(chains) THEN [last EXCEPT !.m = m]
    ELSE LET Ended(p) == [p EXCEPT !.m = Log(p.m, Event("chain", call, m.depth, c, 0, <<>>, <<>>,
                                                        p.out, p.err, p.code, p.m.allowed, p.m.cwd))]
             Onward(ended) == RunChainsThrough(chains, c + 1, ended.m, call, ended)
             After(p) == IF p.exc # "" THEN p ELSE Onward(Ended(p))
         IN  After(RunPipeline(chains[c], 1, <<>>, m, call, c, Ret(<<>>, <<>>, 0, m)))

\* a loop over the chains that hands the stdout of a chain to the next chain
RECURSIVE RunChainsLeftover(_, _, _, _, _)
RunChainsLeftover(chains, c, m, call, last) ==
    IF c > Len(chains) THEN [last EXCEPT !.m = m]
    ELSE LET Ended(p) == [p EXCEPT !.m = Log(p.m, Event("chain", call, m.depth, c, 0, <<>>, <<>>,
                                                        p.out, p.err, p.code, p.m.allowed, p.m.cwd))]
             Onward(ended) == IF ended.code # 0 THEN ended
                              ELSE RunChainsLeftover(chains, c + 1, ended.m, call, ended)
             After(p) == IF p.exc # "" THEN p ELSE Onward(Ended(p))
         IN  After(RunPipeline(chains[c], 1, last.out, m, call, c, Ret(<<>>, <<>>, 0, m)))

\* the loop over the chains in execute, from chain c on
RECURSIVE RunChains(_, _, _, _, _)
RunChains(chains, c, m, call, last) ==
    IF c > Len(chains) THEN [last EXCEPT !.m = m]
    ELSE LET Ended(p) == [p EXCEPT !.m = Log(p.m, Event("chain", call, m.depth, c, 0, <<>>, <<>>,
                                                        p.out, p.err, p.code, p.m.allowed, p.m.cwd))]
             Onward(ended) == IF ended.code # 0 THEN ended
                              ELSE RunChains(chains, c + 1, ended.m, call, ended)
             After(p) == IF p.exc # "" THEN p ELSE Onward(Ended(p))
         IN  After(RunPipeline(chains[c], 1, <<>>, m, call, c, Ret(<<>>, <<>>, 0, m)))

\* re.match of the pattern of _execute_simple_for_loop (flags=re.DOTALL)
\*   ^\s*for\s+([A-Za-z_]\w*)\s+in\s+\$\(\s*seq\s+(-?\d+)\s+(-?\d+)\s*\)\s*;\s*do\s+(.+?)\s*;\s*done\s*$
\* [ok, var_name, start_s, end_s, body]
ForLoopMatch(text) ==
    LET n == Len(text)
        ws == PyWhitespace
        p0 == SkipClass(text, 1, ws)                 \* "for"
        p1 == p0 + 3
        p2 == SkipClass(text, p1, ws)                \* VAR
        p3 == SkipClass(text, p2 + 1, RegexWord)
        p4 == SkipClass(text, p3, ws)                \* "in"
        p5 == p4 + 2
        p6 == SkipClass(text, p5, ws)                \* "$("
        p7 == SkipClass(text, p6 + 2, ws)            \* "seq"
        p8 == p7 + 3
        p9 == SkipClass(text, p8, ws)                \* START
        d9 == IF IsAt(text, p9, {"-"}) THEN p9 + 1 ELSE p9
        p10 == SkipClass(text, d9, Digits)
        p11 == SkipClass(text, p10, ws)              \* END
        d11 == IF IsAt(text, p11, {"-"}) THEN p11 + 1 ELSE p11
        p12 == SkipClass(text, d11, Digits)
        p13 == SkipClass(text, p12, ws)              \* ")"
        p14 == SkipClass(text, p13 + 1, ws)          \* ";"
        p15 == SkipClass(text, p14 + 1, ws)          \* "do"
        p16 == p15 + 2
        b0 == SkipClass(text, p16, ws)               \* first character after "do\s+"
        head == /\ StartsWithAt(text, Chars("for"), p0)
                /\ IsAt(text, p1, ws)
                /\ IsAt(text, p2, Letters \cup {"_"})
                /\ IsAt(text, p3, ws)
                /\ StartsWithAt(text, Chars("in"), p4)
                /\ IsAt(text, p5, ws)
                /\ StartsWithAt(text, Chars("$("), p6)
                /\ StartsWithAt(text, Chars("seq"), p7)
                /\ IsAt(text, p8, ws)
                /\ p10 > d9
                /\ IsAt(text, p10, ws)
                /\ p12 > d11
                /\ IsAt(text, p13, {")"})
                /\ IsAt(text, p14, {";"})
                /\ StartsWithAt(text, Chars("do"), p15)
                /\ IsAt(text, p16, ws)
        \* the tail \s*;\s*done\s*$ can only start its ";" at the last ";"
        semis == {i \in 1..n : text[i] = ";"}
        q == IF semis = {} THEN 0 ELSE Max(semis)
        e1 == SkipClass(text, q + 1, ws)
        tailOk == /\ q > 0
                  /\ StartsWithAt(text, Chars("done"), e1)
                  /\ SkipClass(text, e1 + 4, ws) = n + 1
        \* the positions where the tail may start: q and the whitespace before it
        tails == {p \in 1..q : \A j \in p..(q - 1) : text[j] \in ws}
        \* do\s+ gives back whitespace until a body of at least one character fits
        starts == {bs \in (p16 + 1)..b0 : \E p \in tails : p > bs}
        bs == Max(starts)
        be == Min({p \in tails : p > bs}) - 1
        fail == [ok |-> FALSE, var_name |-> <<>>, start_s |-> <<>>, end_s |-> <<>>, body |-> <<>>]
    IN  IF ~head THEN fail
        ELSE IF ~tailOk \/ starts = {} THEN fail
        ELSE [ok |-> TRUE, var_name |-> SubSeq(text, p2, p3 - 1),
              start_s |-> SubSeq(text, p9, p10 - 1), end_s |-> SubSeq(text, p11, p12 - 1),
              body |-> SubSeq(text, bs, be)]

\* the while loop of _execute_simple_for_loop, from the value i on; the
\* "loop" event records the joined chunks before they are truncated
ForLoopIter(i, end, step, var_name, body, m, call, outs, errs, last_code) ==
    IF (i <= end /\ step > 0) \/ (i >= end /\ step < 0)
    THEN LET rendered == Replace(Replace(body, Chars("${") \o var_name \o Chars("}"), IntToStr(i)),
                                 Chars("$") \o var_name, IntToStr(i))
             After(r) == IF r.exc # "" THEN r
                         ELSE ForLoopIterAt[<<i + step, end, step, var_name, body, r.m, call,
                                              outs \o r.out, errs \o r.err, r.code>>]
         IN  After(ExecuteAt[<<rendered, m>>])
    ELSE Ret(truncate_output(outs), truncate_output(errs), last_code,
             Log(m, Event("loop", call, m.depth, 0, 0, <<>>, body, outs, errs, last_code,
                          m.allowed, m.cwd)))

\* a variant of the for loop that runs one iteration past END
execute_simple_for_loop_beyond(fl, m, call) ==
    LET start == ParseInt(fl.start_s).val
        end == ParseInt(fl.end_s).val
        step == IF end >= start THEN 1 ELSE -1
    IN  ForLoopIter(start, end + step, step, fl.var_name, fl.body, m, call, <<>>, <<>>, 0)

\* FakeShell._execute_simple_for_loop(command, ctx) for a command that matches
execute_simple_for_loop(fl, m, call) ==
    LET start == ParseInt(fl.start_s).val
        end == ParseInt(fl.end_s).val
        step == IF end >= start THEN 1 ELSE -1
    IN  ForLoopIter(start, end, step, fl.var_name, fl.body, m, call, <<>>, <<>>, 0)

RECURSIVE CountStages(_, _)
CountStages(chains, c) == IF c > Len(chains) THEN 0 ELSE Len(chains[c]) + CountStages(chains, c + 1)

\* the end of execute's try block: truncate_output on both streams
execute_truncated(ran) ==
    IF ran.exc # "" THEN ran
    ELSE Ret(truncate_output(ran.out), truncate_output(ran.err), ran.code, ran.m)

\* the stage count is checked, then the loop over the chains runs
execute_counted(chains, too_many, entered, call) ==
    IF too_many # <<>> THEN Ret(<<>>, too_many, 1, entered)
    ELSE IF chains = <<>> THEN Ret(<<>>, <<>>, 0, entered)
    ELSE execute_truncated(RunChains(chains, 1, entered, call, Ret(<<>>, <<>>, 0, entered)))

\* except ValueError as exc: return "", str(exc), 1
execute_parsed(parsed, entered, call) ==
    IF parsed.err # <<>> THEN Ret(<<>>, parsed.err, 1, entered)
    ELSE execute_counted(parsed.chains, check_stage_limit(CountStages(parsed.chains, 1)),
                         entered, call)

\* the for-loop path runs inside the try block
execute_looped(loop_result) ==
    IF loop_result.exc = "ValueError" THEN Ret(<<>>, loop_result.err, 1, loop_result.m)
    ELSE loop_result

execute_matched(fl, cmd, entered, call) ==
    IF fl.ok THEN execute_looped(execute_simple_for_loop(fl, entered, call))
    ELSE execute_parsed(parse_command_line(cmd), entered, call)

execute_checked(too_long, cmd, entered, call) ==
    IF too_long # <<>> THEN Ret(<<>>, too_long, 1, entered)
    ELSE execute_matched(ForLoopMatch(cmd), cmd, entered, call)

\* FakeShell.execute(command, ctx)
execute(cmd, m0) ==
    LET call == m0.ncall + 1
        entered == Log([m0 EXCEPT !.allowed = IF @ # {} THEN @ ELSE m0.shellAllowed,
                                  !.ncall = call, !.depth = @ + 1],
                       Event("exec", call, m0.depth + 1, 0, 0, <<>>, cmd, <<>>, <<>>, 0,
                             IF m0.allowed # {} THEN m0.allowed ELSE m0.shellAllowed, m0.cwd))
        Left(r) == [r EXCEPT !.m = Log([r.m EXCEPT !.depth = m0.depth],
                                       Event(IF r.exc = "" THEN "return" ELSE "raise", call,
                                             m0.depth + 1, 0, 0, <<>>, cmd, r.out, r.err, r.code,
                                             r.m.allowed, r.m.cwd))]
    IN  Left(execute_checked(check_input_limit(cmd), cmd, entered, call))

\* the context a caller builds for one top-level call
\* the reading of the clock during the calls of the model
Now == 1740000000
NewContext(e, dir, allowed, shAllowed, slowSet) ==
    [env |-> e, cwd |-> dir, allowed |-> allowed, shellAllowed |-> shAllowed, slow |-> slowSet,
     nrun |-> 0, ncall |-> 0, depth |-> 0, log |-> <<>>,
     routes |-> HttpRoutes, hooks |-> InitialHooks, now |-> Now]

(***************************************************************************)
(* The callers of the shell.  A level's terminal handler keeps a FakeShell *)
(* and, per session, the cwd; for every command it builds a new            *)
(* ShellContext with that cwd, calls execute, stores ctx.cwd back and      *)
(* returns the triple (levels/level4_2.py, terminal_exec_with_session).    *)
(***************************************************************************)
\* FakeShell(allowed=None): set(allowed or COMMANDS.keys())
DefaultAllowed == COMMANDS
\* the allowlist of the level 4-2 shell
Level42Allowed ==
    {Chars("curl"), Chars("grep"), Chars("findstr"), Chars("head"), Chars("tail"),
     Chars("wc"), Chars("base64"), Chars("seq"), Chars("xargs"), Chars("cat"), Chars("ls"),
     Chars("find"), Chars("echo"), Chars("help"), Chars("pwd"), Chars("cd"), Chars("whoami")}
\* the level 4-5 shell is constructed with the same allowlist
Level45Allowed == Level42Allowed
\* the shells: FakeShell(fs_tree, http_routes) with static routes, and the
\* shell of level 4-5
Shells == {DefaultAllowed, Level45Allowed}
FakeShells == { [allowed |-> DefaultAllowed, routes |-> HttpRoutes],
                [allowed |-> Level45Allowed, routes |-> Level45Routes] }

\* ShellContext.allowed as callers construct it: left empty (the shell's
\* allowlist applies) or a restricted set
RestrictedAllowed == {Chars("echo"), Chars("xargs"), Chars("cd"), Chars("seq")}
CtxAllowlists == {{}, RestrictedAllowed}

SessionEnv == { [k |-> Chars("USER"), v |-> Chars("user_1004")],
                [k |-> Chars("SESSION_TOKEN"), v |-> <<>>],
                [k |-> Chars("HOME"), v |-> Chars("/workspace")] }

\* the timing of one call: no builtin is slow, or exactly one of the first
\* MaxSlow invocations is
MaxSlow == 2
SlowChoices == {{}} \cup {{k} : k \in 1..MaxSlow}

Idle == [state |-> "idle", out |-> <<>>, err |-> <<>>, code |-> 0, exc |-> ""]

(***************************************************************************)
(* The commands the callers send                                           *)
(***************************************************************************)
\* for i in $(seq START END); do BODY; done
ForText(start, end, body) ==
    Chars("for i in $(seq ") \o IntToStr(start) \o <<" ">> \o IntToStr(end)
        \o Chars("); do ") \o body \o Chars("; done")
MaxSeq == 3
ForRanges == {<<1, e>> : e \in 1..MaxSeq} \cup {<<e, 1>> : e \in 1..MaxSeq}
ForBodies == {Chars("echo ${i}"), Chars("echo $i | grep 1"), Chars("curl 'http://['")}
ForCommands == {ForText(r[1], r[2], b) : r \in ForRanges, b \in ForBodies}

\* echo TOKEN_1 ... TOKEN_k | xargs -I T TEMPLATE
Token(k) ==
    IF k = 1 THEN Chars("nope") ELSE IF k = 2 THEN Chars("http://[")
    ELSE IF k = 3 THEN Chars("README.txt") ELSE <<"t">> \o NatToStr(k)
XargsText(k, template) ==
    Chars("echo ") \o Join([j \in 1..k |-> Token(j)], <<" ">>) \o Chars(" | xargs -I T ")
        \o template
MaxTokens == 3
XargsTemplates == {Chars("echo T"), Chars("cat T"), Chars("curl T")}
XargsCommands == {XargsText(k, t) : k \in 1..MaxTokens, t \in XargsTemplates}

\* what a learner of level 4-5 sends: the signature of a delivery, the
\* delivery itself, and the question where the parcel is
ActionsUrl == Chars("http://hub/api/v1/challenges/level4_5/actions/")
DeliveredBody == Chars("{\"type\":\"parcel.delivered\",\"parcel_id\":\"PD-1004\"}")
SignCommand == Chars("sign-webhook ") \o IntToStr(Now) \o Chars(" '") \o DeliveredBody \o <<"'">>
DeliverCommand ==
    Chars("curl -X POST -H 'X-Webhook-Timestamp: ") \o IntToStr(Now)
        \o Chars("' -H 'X-Webhook-Event-Id: EVT-1' -H 'X-Webhook-Signature: ")
        \o compute_signature(PARTNER_WEBHOOK_SECRET, IntToStr(Now), DeliveredBody)
        \o Chars("' -d '") \o DeliveredBody \o Chars("' ") \o ActionsUrl
        \o Chars("webhook/receive")
TrackCommand(token) ==
    Chars("curl -H 'Authorization: Bearer ") \o token \o Chars("' '") \o ActionsUrl
        \o Chars("track?parcel_id=PD-1004'")

FixedCommands ==
    { <<>>,
      Chars("echo hi"),
      Chars("echo 'a"),
      Chars("false_cmd | echo hi"),
      Chars("echo a b | xargs -I{} echo {}"),
      Chars("echo a b | xargs -I {} echo {}"),
      Chars("echo README.txt nope | xargs -I F cat F | wc -l"),
      Chars("echo nope README.txt | xargs -I F cat F | wc -l"),
      Chars("curl 'http://['"),
      Chars("curl http://shop/health | grep ok"),
      Chars("curl -X POST http://shop/parcels && echo next"),
      Chars("curl -i http://shop/nope | wc -l"),
      Chars("curl -i && echo no"),
      DeliverCommand \o Chars(" && echo sent"),
      Chars("cd README.txt"),
      Chars("echo tokens | xargs -I T cd T"),
      Chars("echo hi | grep h"),
      Chars("cat nope | wc -c"),
      Chars("base64 hi"),
      Chars("base64 -d aGk="),
      Chars("cd tokens && pwd"),
      Chars("cd .."),
      Chars("cd"),
      Chars("cd nope && echo no"),
      Chars("echo a && echo b"),
      Chars(" | && "),
      Chars("for i in $(seq 1 2); do for j in $(seq $i 2); do echo $i$j; done; done"),
      Chars("echo a b | xargs -I T xargs echo T"),
      Chars("seq 5 1 -2"),
      Chars("seq 1 2 0"),
      Chars("echo one && cat nope && echo three"),
      Chars("cat README.txt | grep zzz | wc -l"),
      Chars("ls | head -n 1"),
      Chars("seq 1 3 | tail -n 1"),
      Chars("for i in $(seq -1 1); do echo $i; done"),
      Chars("for i in $(seq 1 2); do echo nope$i | xargs -I T cat T; done") }

Commands == FixedCommands \cup ForCommands \cup XargsCommands

(***************************************************************************)
(* levels/level1_1.py: the logging policy of the defense and its commands. *)
(* The defense state of a session is [policy, verified, patchProof].       *)
(***************************************************************************)
LOGCAT_LINES ==
    <<Chars("I/PurpleDroid: app started"),
      Chars("D/Secret: PurpleDroid Key = FLAG{Always_Check_The_Logs_First}"),
      Chars("I/OtherTag: something something"),
      Chars("D/PurpleDroid: done")>>

DEFENSE_DEFAULT_POLICY ==
    [logLevel |-> Chars("DEBUG"), redactFlagPattern |-> FALSE, allowDebugTag |-> TRUE]

\* _defense_state(session) of a session that sent no defense command yet
InitialDefense == [policy |-> DEFENSE_DEFAULT_POLICY, verified |-> FALSE, patchProof |-> <<>>]

\* the end (exclusive) of a match of FLAG\s*\{[^}\n]*\} (IGNORECASE) that
\* starts at position i, 0 when there is none
FlagPatternEnd(text, i) ==
    LET brace == SkipClass(text, i + 4, PyWhitespace)
        stops == {k \in (brace + 1)..Len(text) : text[k] \in {"}", "\n"}}
    IN  IF ~(i + 3 <= Len(text) /\ Upper(SubSeq(text, i, i + 3)) = Chars("FLAG")) THEN 0
        ELSE IF ~IsAt(text, brace, {"{"}) THEN 0
        ELSE IF stops = {} THEN 0
        ELSE IF text[Min(stops)] = "}" THEN Min(stops) + 1 ELSE 0

\* re.sub over the text from position i on: the leftmost match from there is
\* replaced and the scan goes on behind it
RECURSIVE MaskFrom(_, _)
MaskFrom(text, i) ==
    LET starts == {k \in i..Len(text) : FlagPatternEnd(text, k) > 0}
    IN  IF starts = {} THEN SubSeq(text, i, Len(text))
        ELSE SubSeq(text, i, Min(starts) - 1) \o Chars("FLAG{REDACTED}")
                 \o MaskFrom(text, FlagPatternEnd(text, Min(starts)))

\* _mask_flag_patterns(text)
mask_flag_patterns(text) == MaskFrom(text, 1)

\* re.search(r"FLAG\s*\{", text, flags=re.IGNORECASE) is not None
HasFlagPattern(text) ==
    \E i \in 1..Len(text) :
        /\ i + 3 <= Len(text)
        /\ Upper(SubSeq(text, i, i + 3)) = Chars("FLAG")
        /\ IsAt(text, SkipClass(text, i + 4, PyWhitespace), {"{"})

\* _render_logs_with_policy(policy)
render_logs_with_policy(policy) ==
    LET Kept(ln) ==
            /\ ~(Upper(policy.logLevel) = Chars("INFO") /\ StartsWith(ln, Chars("D/")))
            /\ ~(~policy.allowDebugTag /\ StartsWith(ln, Chars("D/Secret:")))
        joined == Join(SelectSeq(LOGCAT_LINES, Kept), <<"\n">>)
        text == IF policy.redactFlagPattern THEN mask_flag_patterns(joined) ELSE joined
    IN  IF text = <<>> THEN <<>> ELSE text \o <<"\n">>

\* sum(1 for k, v in DEFENSE_DEFAULT_POLICY.items() if policy.get(k) != v)
ChangedCount(policy) ==
    Cardinality({k \in DOMAIN DEFENSE_DEFAULT_POLICY : policy[k] # DEFENSE_DEFAULT_POLICY[k]})

\* key in updates, for a parsed JSON object
HasKey(updates, key) == \E i \in 1..Len(updates.kids) : updates.kids[i].k = key
\* isinstance(value, bool)
IsBool(v) == v.t = "lit" /\ v.s \in {Chars("true"), Chars("false")}

\* what _defense_apply_payload returns, with the state it leaves: the policy
\* dict is updated in place, so a rejected apply keeps the fields set before
\* the rejection
ApplyRejected(state, policy, message) ==
    [ok |-> FALSE, code |-> "BAD_INPUT", message |-> message, changedCount |-> 0,
     state |-> [state EXCEPT !.policy = policy]]
ApplyDone(policy) ==
    [ok |-> TRUE, code |-> "", message |-> <<>>, changedCount |-> ChangedCount(policy),
     state |-> [policy |-> policy, verified |-> FALSE, patchProof |-> <<>>]]

\* _defense_apply_payload(state, updates): [ok, code, message, changedCount, state]
defense_apply_payload(state, updates) ==
    LET AllowDebugTag(policy) ==
            LET v == JsonGet(updates, Chars("allowDebugTag"))
            IN  IF ~HasKey(updates, Chars("allowDebugTag")) THEN ApplyDone(policy)
                ELSE IF ~IsBool(v)
                THEN ApplyRejected(state, policy, Chars("allowDebugTag must be boolean"))
                ELSE ApplyDone([policy EXCEPT !.allowDebugTag = (v.s = Chars("true"))])
        RedactFlagPattern(policy) ==
            LET v == JsonGet(updates, Chars("redactFlagPattern"))
            IN  IF ~HasKey(updates, Chars("redactFlagPattern")) THEN AllowDebugTag(policy)
                ELSE IF ~IsBool(v)
                THEN ApplyRejected(state, policy, Chars("redactFlagPattern must be boolean"))
                ELSE AllowDebugTag([policy EXCEPT !.redactFlagPattern = (v.s = Chars("true"))])
        LogLevel(policy) ==
            LET level == Strip(Upper(PyStr(JsonGet(updates, Chars("logLevel")))))
            IN  IF ~HasKey(updates, Chars("logLevel")) THEN RedactFlagPattern(policy)
                ELSE IF level \notin {Chars("DEBUG"), Chars("INFO"), Chars("WARN"), Chars("ERROR")}
                THEN ApplyRejected(state, policy, Chars("logLevel must be DEBUG/INFO/WARN/ERROR"))
                ELSE RedactFlagPattern([policy EXCEPT !.logLevel = level])
    IN  LogLevel(state.policy)

\* the checks of _defense_verify_payload
VerifyChecks(policy) ==
    [logLevelNotDebug |-> Upper(policy.logLevel) # Chars("DEBUG"),
     redactionEnabled |-> policy.redactFlagPattern,
     minimumPolicyChanges |-> ChangedCount(policy) >= 2,
     noFlagPatternInLogs |-> ~HasFlagPattern(render_logs_with_policy(policy))]

\* _defense_verify_payload(state): [verified, checks, state]; proof is the
\* text secrets.token_hex draws for the patch proof
defense_verify_payload(state, proof) ==
    LET checks == VerifyChecks(state.policy)
        verified == \A c \in DOMAIN checks : checks[c]
    IN  [verified |-> verified, checks |-> checks,
         state |-> [policy |-> state.policy, verified |-> verified,
                    patchProof |-> IF verified /\ state.patchProof = <<>>
                                   THEN Chars("P1-1-") \o proof ELSE state.patchProof]]

\* cmdline.split("defense apply", 1)[1]: the text after the first
\* occurrence; found = FALSE is the IndexError
AfterDefenseApply(cmdline) ==
    LET at == {i \in 1..Len(cmdline) : StartsWithAt(cmdline, Chars("defense apply"), i)}
    IN  IF at = {} THEN [found |-> FALSE, text |-> <<>>]
        ELSE [found |-> TRUE, text |-> SubSeq(cmdline, Min(at) + 13, Len(cmdline))]

\* _run_defense_command, the action apply: [err, code, exc, state]; of the
\* message "invalid JSON: ..." the model keeps the first two words
run_defense_apply(cmdline, state) ==
    LET Still(err, code, exc) == [err |-> err, code |-> code, exc |-> exc, state |-> state]
        Applied(r) ==
            IF r.ok THEN [err |-> <<>>, code |-> 0, exc |-> "", state |-> r.state]
            ELSE [err |-> r.message, code |-> 2, exc |-> "", state |-> r.state]
        Loaded(parsed) ==
            IF ~parsed.ok THEN Still(Chars("invalid JSON"), 2, "")
            ELSE Applied(defense_apply_payload(state,
                             IF parsed.v.t = "obj" THEN parsed.v ELSE JObj(<<>>)))
        Split(after) ==
            IF ~after.found THEN Still(<<>>, 0, "IndexError")
            ELSE IF Strip(after.text) = <<>>
            THEN Still(Chars("defense apply requires JSON body"), 2, "")
            ELSE Loaded(json_loads(Strip(after.text)))
    IN  Split(AfterDefenseApply(cmdline))

\* _run_defense_command(command, session): [err, code, exc, state]; of the
\* JSON text on stdout the model keeps nothing
run_defense_command(command0, state, proof) ==
    LET cmdline == Strip(command0)
        Still(err, code, exc) == [err |-> err, code |-> code, exc |-> exc, state |-> state]
        Parsed(parts) ==
            IF parts.err # <<>> THEN Still(<<>>, 0, "ValueError")
            ELSE IF \/ Len(parts.tokens) = 1
                    \/ parts.tokens[2] \in {Chars("help"), Chars("h"), Chars("?")}
            THEN Still(<<>>, 0, "")
            ELSE IF Lower(parts.tokens[2]) = Chars("audit") THEN Still(<<>>, 0, "")
            ELSE IF Lower(parts.tokens[2]) = Chars("apply") THEN run_defense_apply(cmdline, state)
            ELSE IF Lower(parts.tokens[2]) = Chars("verify")
            THEN [err |-> <<>>, code |-> 0, exc |-> "",
                  state |-> defense_verify_payload(state, proof).state]
            ELSE Still(Chars("unknown defense action: ") \o Lower(parts.tokens[2]), 2, "")
    IN  IF ~StartsWith(cmdline, Chars("defense"))
        THEN Still(Chars("invalid defense command"), 2, "")
        ELSE Parsed(shlex_split(cmdline))

(***************************************************************************)
(* levels/level3_boss.py: the locker and the vault.  The boss state of a   *)
(* session is [lockerAttempts, unlocked, claimCodeIssued, auditRefSeen],   *)
(* None being the empty text.                                              *)
(***************************************************************************)
BOSS_FLAG == Chars("FLAG{CH3_COURIER_HUB_MASTER}")
BOSS_LOCKER_ID == Chars("SL-11")
BOSS_PIN == Chars("7816")
BOSS_VAULT_TICKET == Chars("VTK-9a31-f1de")
BOSS_CLAIM_CODE == Chars("CLM-11b4")
BOSS_ATTEMPT_CAP == 500

\* _ensure_state(session) of a session that has no boss state yet
InitialBossState ==
    [lockerAttempts |-> 0, unlocked |-> FALSE, claimCodeIssued |-> <<>>, auditRefSeen |-> <<>>]

\* what the boss payloads answer: data.status and the fields that go with it
BossAnswer(status, message, attempts, claim_code, flag) ==
    [http |-> 200, status |-> status, message |-> message, attempts |-> attempts,
     claim_code |-> claim_code, flag |-> flag]

\* a variant of locker_unlock_payload that compares the PIN whatever the
\* number of attempts
locker_unlock_payload_uncapped(state, locker_id, pin) ==
    LET attempts == state.lockerAttempts + 1
        counted == [state EXCEPT !.lockerAttempts = attempts]
    IN  IF Strip(locker_id) # BOSS_LOCKER_ID
        THEN [state |-> counted,
              data |-> BossAnswer("denied", Chars("Unknown locker"), attempts, <<>>, <<>>)]
        ELSE IF Strip(pin) = BOSS_PIN
        THEN [state |-> [counted EXCEPT !.unlocked = TRUE, !.claimCodeIssued = BOSS_CLAIM_CODE],
              data |-> BossAnswer("unlocked", Chars("Locker opened"), attempts,
                                  BOSS_CLAIM_CODE, <<>>)]
        ELSE [state |-> counted,
              data |-> BossAnswer("denied", Chars("Wrong PIN"), attempts, <<>>, <<>>)]

\* locker_unlock_payload(session, locker_id, pin): [state, data]
locker_unlock_payload(state, locker_id, pin) ==
    LET attempts == state.lockerAttempts + 1
        counted == [state EXCEPT !.lockerAttempts = attempts]
    IN  IF attempts > BOSS_ATTEMPT_CAP
        THEN [state |-> counted,
              data |-> BossAnswer("denied", Chars("Too many attempts in this lab session."),
                                  attempts, <<>>, <<>>)]
        ELSE IF Strip(locker_id) # BOSS_LOCKER_ID
        THEN [state |-> counted,
              data |-> BossAnswer("denied", Chars("Unknown locker"), attempts, <<>>, <<>>)]
        ELSE IF Strip(pin) = BOSS_PIN
        THEN [state |-> [counted EXCEPT !.unlocked = TRUE, !.claimCodeIssued = BOSS_CLAIM_CODE],
              data |-> BossAnswer("unlocked", Chars("Locker opened"), attempts,
                                  BOSS_CLAIM_CODE, <<>>)]
        ELSE [state |-> counted,
              data |-> BossAnswer("denied", Chars("Wrong PIN"), attempts, <<>>, <<>>)]

\* vault_claim_payload(session, vault_ticket, claim_code): [state, data];
\* str(None) is "None"
vault_claim_payload(state, vault_ticket, claim_code) ==
    LET issued == IF state.claimCodeIssued = <<>> THEN Chars("None") ELSE state.claimCodeIssued
    IN  IF /\ Strip(vault_ticket) = BOSS_VAULT_TICKET
           /\ Strip(claim_code) = issued
           /\ state.unlocked
        THEN [state |-> state, data |-> BossAnswer("claimed", <<>>, 0, <<>>, BOSS_FLAG)]
        ELSE [state |-> state,
              data |-> BossAnswer("denied", Chars("Invalid ticket/code"), 0, <<>>, <<>>)]

(***************************************************************************)
(* main.py: the session store and the progress of a session                *)
(***************************************************************************)
SESSION_TTL_SEC == 604800
CMD_RATE_WINDOW_SEC == 5
CMD_RATE_MAX == 25

\* levels/__init__.py: the ids of the levels in order (STATIC["id"])
LEVEL_ORDER ==
    <<"level1", "level1_2", "level1_3", "level2_1", "level2_2", "level2_3", "level2_4",
      "level2_5", "level3_1", "level3_2", "level3_3", "level3_4", "level3_5", "level3_boss",
      "level4_1", "level4_2", "level4_3", "level4_4", "level4_5", "level4_boss">>
\* the keys of LEVELS
LEVELS == {LEVEL_ORDER[i] : i \in 1..Len(LEVEL_ORDER)}
\* LEVEL_ORDER.index(level_id)
LevelIndex(level_id) == CHOOSE i \in 1..Len(LEVEL_ORDER) : LEVEL_ORDER[i] = level_id

\* the flag constant of each level module
LevelFlag(level_id) ==
    CASE level_id = "level1" -> Chars("FLAG{Always_Check_The_Logs_First}")
      [] level_id = "level1_2" -> Chars("FLAG{DEV_ONLY_LEVEL1_2}")
      [] level_id = "level1_3" -> Chars("FLAG{DEV_ONLY_LEVEL1_3}")
      [] level_id = "level2_1" -> Chars("FLAG{HEADER_IS_NOT_INVISIBLE}")
      [] level_id = "level2_2" -> Chars("FLAG{VIP_TAMPERING_SUCCESS}")
      [] level_id = "level2_3" -> Chars("FLAG{TOKEN_IS_NOT_ENCRYPTED}")
      [] level_id = "level2_4" -> Chars("FLAG{JWT_SIGNATURE_MATTERS}")
      [] level_id = "level2_5" -> Chars("FLAG{SEALED_WAREHOUSE_BREACHED}")
      [] level_id = "level3_1" -> Chars("FLAG{BOLA_ENUMERATION_WORKS}")
      [] level_id = "level3_2" -> Chars("FLAG{UI_IS_NOT_AUTHZ}")
      [] level_id = "level3_3" -> Chars("FLAG{DONT_TRUST_CLIENT_FIELDS}")
      [] level_id = "level3_4" -> Chars("FLAG{DATA_EXPOSURE_HURTS}")
      [] level_id = "level3_5" -> Chars("FLAG{RATE_LIMIT_EXISTS_FOR_A_REASON}")
      [] level_id = "level3_boss" -> Chars("FLAG{CH3_COURIER_HUB_MASTER}")
      [] level_id = "level4_1" -> Chars("FLAG{BUILD_ARTIFACTS_ARE_PUBLIC}")
      [] level_id = "level4_2" -> Chars("FLAG{KID_CONTROLS_THE_LOCK}")
      [] level_id = "level4_3" -> Chars("FLAG{REPLAY_NEEDS_IDEMPOTENCY}")
      [] level_id = "level4_4" -> Chars("FLAG{XFF_IS_NOT_YOUR_IDENTITY}")
      [] level_id = "level4_5" -> LEVEL4_5_FLAG
      [] level_id = "level4_boss" -> Chars("FLAG{VAULT_OPENED_BY_TRUST_CHAIN_FAILURE}")

\* mod.check_flag(flag): flag.strip() == LEVEL_FLAG
check_flag(level_id, flag) == Strip(flag) = LevelFlag(level_id)

\* set(patched_ids) of a list of patch ids
PatchSet(patched_ids) == {patched_ids[i] : i \in 1..Len(patched_ids)}

\* mod.judge_patch(patched_ids): [exc, ok]; the modules of level2_1 and
\* level2_2 define no judge_patch, so the attribute lookup raises
judge_patch(level_id, patched_ids) ==
    CASE level_id = "level1" -> [exc |-> "", ok |-> {"p1", "p2"} \subseteq PatchSet(patched_ids)]
      [] level_id = "level1_2" -> [exc |-> "", ok |-> "p1" \in PatchSet(patched_ids)]
      [] level_id = "level1_3" ->
             [exc |-> "", ok |-> {"p1", "p2", "p3"} \subseteq PatchSet(patched_ids)]
      [] level_id \in {"level2_1", "level2_2"} -> [exc |-> "AttributeError", ok |-> FALSE]
      [] OTHER -> [exc |-> "", ok |-> FALSE]

\* _init_progress()
init_progress ==
    [level_id \in LEVELS |-> [attackSolved |-> FALSE, defenseSolved |-> FALSE]]

\* create_session(): the session dict stored in _sessions; fakeShellState,
\* defenseState and level3_boss_state hold what the levels put there at the
\* first command or request
create_session(token, now) ==
    [token |-> token, createdAt |-> now, lastSeenAt |-> now, expiresAt |-> now + SESSION_TTL_SEC,
     userId |-> "user_1004", primaryParcelId |-> "PD-1004", progress |-> init_progress,
     terminalRate |-> <<>>, parcelLookupRate |-> <<>>, stored |-> TRUE,
     fakeShellState |-> [level4_5 |-> [cwd |-> Chars("/workspace")]],
     defenseState |-> [level1 |-> InitialDefense],
     level3_boss_state |-> InitialBossState]

\* the error envelope of an APIError and the ok envelope
APIError(code, status_code, s) == [status |-> status_code, code |-> code, data |-> <<>>, s |-> s]
Ok(data, s) == [status |-> 200, code |-> "", data |-> data, s |-> s]
\* an exception no handler catches: the framework answers 500
ServerError(exc, s) == [status |-> 500, code |-> exc, data |-> <<>>, s |-> s]

\* _get_session(authorization): [err, s]; s is the session after the lookup
\* (popped when it has expired, lastSeenAt set otherwise)
get_session(bearer, s, now) ==
    IF bearer # s.token \/ ~s.stored THEN [err |-> "UNAUTHORIZED", s |-> s]
    ELSE IF s.expiresAt < now THEN [err |-> "UNAUTHORIZED", s |-> [s EXCEPT !.stored = FALSE]]
    ELSE [err |-> "", s |-> [s EXCEPT !.lastSeenAt = now]]

\* _is_level_unlocked(session, level_id)
is_level_unlocked(s, level_id) ==
    IF level_id \notin LEVELS THEN FALSE
    ELSE IF LevelIndex(level_id) = 1 THEN TRUE
    ELSE s.progress[LEVEL_ORDER[LevelIndex(level_id) - 1]].defenseSolved

\* _status_for(session, level_id)
status_for(s, level_id) ==
    IF level_id \notin DOMAIN s.progress THEN [attack |-> "locked", defense |-> "locked"]
    ELSE LET prog == s.progress[level_id]
             boss_prereqs == {"level2_1", "level2_2", "level2_3", "level2_4"}
             level3_boss_prereqs == {"level3_1", "level3_2", "level3_3", "level3_4", "level3_5"}
             Gated(prereqs) ==
                 IF prog.attackSolved THEN "solved"
                 ELSE IF \A x \in prereqs : s.progress[x].attackSolved THEN "available"
                 ELSE "locked"
         IN  [attack |-> IF level_id = "level2_5" THEN Gated(boss_prereqs)
                         ELSE IF level_id = "level3_boss" THEN Gated(level3_boss_prereqs)
                         ELSE IF prog.attackSolved THEN "solved" ELSE "available",
              defense |-> IF prog.defenseSolved THEN "solved"
                          ELSE IF prog.attackSolved /\ is_level_unlocked(s, level_id)
                          THEN "available" ELSE "locked"]

\* _next_level_id(level_id); "" stands for None
next_level_id(level_id) ==
    IF level_id \notin LEVELS THEN ""
    ELSE IF LevelIndex(level_id) + 1 > Len(LEVEL_ORDER) THEN ""
    ELSE LEVEL_ORDER[LevelIndex(level_id) + 1]

\* POST /challenges/{challenge_id}/submit-flag
submit_flag(challenge_id, flag, bearer, s0, now) ==
    LET Found(s) ==
            IF challenge_id \notin LEVELS THEN APIError("NOT_FOUND", 404, s)
            ELSE IF check_flag(challenge_id, flag)
            THEN LET solved == [s EXCEPT !.progress[challenge_id].attackSolved = TRUE]
                 IN  Ok([correct |-> TRUE, unlockDefense |-> TRUE,
                         status |-> status_for(solved, challenge_id)], solved)
            ELSE Ok([correct |-> FALSE], s)
        Authorized(got) ==
            IF got.err # "" THEN APIError(got.err, 401, got.s) ELSE Found(got.s)
    IN  Authorized(get_session(bearer, s0, now))

\* a variant of submit_patch without the DEFENSE_LOCKED check
submit_patch_unlocked(challenge_id, patched, bearer, s0, now) ==
    LET Judged(s, verdict) ==
            IF verdict.exc # "" THEN ServerError(verdict.exc, s)
            ELSE IF verdict.ok
            THEN LET solved == [s EXCEPT !.progress[challenge_id].defenseSolved = TRUE]
                 IN  Ok([correct |-> TRUE, unlockNext |-> TRUE,
                         status |-> status_for(solved, challenge_id),
                         next |-> next_level_id(challenge_id)], solved)
            ELSE Ok([correct |-> FALSE], s)
        Found(s) ==
            IF challenge_id \notin LEVELS THEN APIError("NOT_FOUND", 404, s)
            ELSE Judged(s, judge_patch(challenge_id, patched))
        Authorized(got) ==
            IF got.err # "" THEN APIError(got.err, 401, got.s) ELSE Found(got.s)
    IN  Authorized(get_session(bearer, s0, now))

\* POST /challenges/{challenge_id}/submit-patch
submit_patch(challenge_id, patched, bearer, s0, now) ==
    LET Judged(s, verdict) ==
            IF verdict.exc # "" THEN ServerError(verdict.exc, s)
            ELSE IF verdict.ok
            THEN LET solved == [s EXCEPT !.progress[challenge_id].defenseSolved = TRUE]
                 IN  Ok([correct |-> TRUE, unlockNext |-> TRUE,
                         status |-> status_for(solved, challenge_id),
                         next |-> next_level_id(challenge_id)], solved)
            ELSE Ok([correct |-> FALSE], s)
        Found(s) ==
            IF challenge_id \notin LEVELS THEN APIError("NOT_FOUND", 404, s)
            ELSE IF status_for(s, challenge_id).defense = "locked"
            THEN APIError("DEFENSE_LOCKED", 409, s)
            ELSE Judged(s, judge_patch(challenge_id, patched))
        Authorized(got) ==
            IF got.err # "" THEN APIError(got.err, 401, got.s) ELSE Found(got.s)
    IN  Authorized(get_session(bearer, s0, now))

\* GET /me
me(bearer, s0, now) ==
    LET Reported(s) ==
            LET open == {i \in 1..Len(LEVEL_ORDER) :
                            /\ is_level_unlocked(s, LEVEL_ORDER[i])
                            /\ ~s.progress[LEVEL_ORDER[i]].defenseSolved}
                completed == SelectSeq(LEVEL_ORDER, LAMBDA l : s.progress[l].defenseSolved)
            IN  Ok([completed |-> completed,
                    current |-> IF open = {} THEN "" ELSE LEVEL_ORDER[Min(open)],
                    score |-> 100 * Len(completed),
                    userId |-> s.userId, primaryParcelId |-> s.primaryParcelId], s)
        Authorized(got) ==
            IF got.err # "" THEN APIError(got.err, 401, got.s) ELSE Reported(got.s)
    IN  Authorized(get_session(bearer, s0, now))

\* POST /challenges/{challenge_id}/reset
reset_level(challenge_id, bearer, s0, now) ==
    LET Found(s) ==
            IF challenge_id \notin DOMAIN s.progress THEN APIError("NOT_FOUND", 404, s)
            ELSE LET cleared == [s EXCEPT !.progress[challenge_id] =
                                    [attackSolved |-> FALSE, defenseSolved |-> FALSE]]
                 IN  Ok([status |-> status_for(cleared, challenge_id)], cleared)
        Authorized(got) ==
            IF got.err # "" THEN APIError(got.err, 401, got.s) ELSE Found(got.s)
    IN  Authorized(get_session(bearer, s0, now))

(***************************************************************************)
(* The state machine                                                       *)
(***************************************************************************)
\* no library function has been called directly
NotAsked == [fn |-> "", args |-> <<>>]
\* the learner sessions of level 4-5, with the session token of each; a
\* session stores {"cwd": "/workspace"} when it first uses the terminal
SessionIds == {1, 2}
SessionToken(s) == IF s = 1 THEN Chars("tok_A") ELSE Chars("tok_B")
FreshSession == [cwd |-> Chars("/workspace"), history |-> <<>>, out |-> <<>>, err |-> <<>>,
                 code |-> 0, exc |-> ""]
Init ==
    /\ sessions = [s \in SessionIds |-> FreshSession]
    /\ session = create_session("tok_main", 0)
    /\ clock = 0
    /\ \E sh \in FakeShells : shellAllowed = sh.allowed /\ shellRoutes = sh.routes
    /\ webhooks = InitialHooks
    /\ asked = NotAsked
    /\ answer = <<>>
    /\ env = SessionEnv
    /\ cwd = Chars("/workspace")
    /\ ctxAllowed = {}
    /\ slow = {}
    /\ command = <<>>
    /\ result = Idle
    /\ trace = <<>>

\* one call of the handler: a new context with the stored cwd, execute, and
\* ctx.cwd stored back unless execute raised
Call(cmd, allowed, slowSet) ==
    /\ result.state = "idle"
    /\ LET Left(r) ==
               /\ result' = [state |-> IF r.exc = "" THEN "returned" ELSE "raised",
                             out |-> r.out, err |-> r.err, code |-> r.code, exc |-> r.exc]
               /\ trace' = r.m.log
               /\ cwd' = IF r.exc = "" THEN r.m.cwd ELSE cwd
               /\ webhooks' = r.m.hooks
       IN  Left(execute(cmd, [NewContext(env, cwd, allowed, shellAllowed, slowSet)
                                 EXCEPT !.routes = shellRoutes, !.hooks = webhooks]))
    /\ command' = cmd
    /\ ctxAllowed' = allowed
    /\ slow' = slowSet
    /\ UNCHANGED <<shellAllowed, env, shellRoutes, asked, answer, sessions, session, clock>>

Execute == \E cmd \in Commands, allowed \in CtxAllowlists, slowSet \in SlowChoices :
               Call(cmd, allowed, slowSet)

\* the handler's answer reaches the client; the context object is dropped
Reply ==
    /\ result.state # "idle"
    /\ result' = Idle
    /\ trace' = <<>>
    /\ command' = <<>>
    /\ ctxAllowed' = {}
    /\ slow' = {}
    /\ UNCHANGED <<shellAllowed, env, cwd, shellRoutes, webhooks, asked, answer, sessions, session, clock>>

Next == Execute \/ Reply

Spec == Init /\ [][Next]_vars

(***************************************************************************)
(* The same handler, sent commands at the limits of limits.py: raw         *)
(* commands around MAX_INPUT_CHARS, stage counts around MAX_PIPE_STAGES    *)
(* and outputs around MAX_OUTPUT_BYTES                                     *)
(***************************************************************************)
MaxOver == 1
\* text followed by x's up to exactly n characters
Padded(text, n) == text \o XRun(n - Len(text))
InputLengths == (MAX_INPUT_CHARS - 1)..(MAX_INPUT_CHARS + MaxOver)
ForOverhead == Len(ForText(1, 1, <<>>))
\* the token xargs puts twice into the command it renders
HalfLen == MAX_INPUT_CHARS \div 3
LongCommands ==
    {Padded(Chars("echo "), n) : n \in InputLengths}
    \cup {Padded(Chars("cd / && echo "), n) : n \in InputLengths}
    \cup {ForText(1, 1, Padded(Chars("cd / && echo "), n - ForOverhead)) : n \in InputLengths}
    \* xargs renders "echo " TT " " filler, of n characters
    \cup {Chars("echo ") \o XRun(HalfLen) \o Chars(" | xargs -I T echo TT ")
              \o XRun(n - 2 * HalfLen - 6) : n \in InputLengths}

StageCounts == (MAX_PIPE_STAGES - 1)..(MAX_PIPE_STAGES + MaxOver)
\* first | cat | ... | cat, of k stages
Piped(first, k) == first \o Flatten([j \in 1..(k - 1) |-> Chars(" | cat")], 1, k - 1)
StageCommands ==
    {Piped(Chars("cd /"), k) : k \in StageCounts}
    \cup {Piped(Chars("cd tokens"), 3) \o Chars(" && ") \o Piped(Chars("echo a"), k - 3) :
            k \in StageCounts}
    \cup {ForText(1, 2, Piped(Chars("cd /"), k)) : k \in StageCounts}

\* echo of a line that ends like a truncated output, often enough to pass
\* MAX_OUTPUT_BYTES
MarkedLen == MAX_INPUT_CHARS - 60
MarkedTimes == (MAX_OUTPUT_BYTES \div (MarkedLen + Len(TruncationMarker))) + 1
MarkedEcho == Chars("echo '") \o XRun(MarkedLen) \o Chars("\n...(truncated)'")
OutputCommands ==
    { Chars("cat logs/big.log"),
      Chars("cat logs/cap.log"),
      Chars("cat logs/wide.log"),
      Chars("cat logs/marked.log"),
      Chars("cat logs/big.log | wc -l"),
      Chars("cat logs/big.log logs/cap.log"),
      Chars("for i in $(seq 1 2); do cat logs/cap.log; done"),
      Chars("for i in $(seq 1 2); do cat logs/big.log; done"),
      Chars("echo a b | xargs -I T cat logs/big.log"),
      Chars("cat logs/names.log | xargs -I F cat F"),
      ForText(1, MarkedTimes, MarkedEcho),
      ForText(1, MarkedTimes - 1, MarkedEcho) }

PlainCommands ==
    { <<>>, Chars("pwd"), Chars("cd logs"), Chars("cd tokens"), Chars("cd .."), Chars("cd"),
      Chars("ls"), Chars("echo hi | cat | cat"), Chars("false_cmd | echo hi") }

LimitCommands == LongCommands \cup StageCommands \cup OutputCommands \cup PlainCommands

ExecuteLimits == \E cmd \in LimitCommands : Call(cmd, {}, {})

NextLimits == ExecuteLimits \/ Reply

SpecLimits == Init /\ [][NextLimits]_vars

(***************************************************************************)
(* Reading the trace of one top-level call                                 *)
(***************************************************************************)
\* the allowlist execute works with: ctx.allowed, or the shell's when empty
EffectiveAllowed == IF ctxAllowed # {} THEN ctxAllowed ELSE shellAllowed
\* the positions of the events of one kind
Events(kind) == {i \in 1..Len(trace) : trace[i].ev = kind}
\* the position where the execute call entered at position i is left
LeftAt(i) ==
    Min({j \in (i + 1)..Len(trace) :
            trace[j].ev \in {"return", "raise"} /\ trace[j].call = trace[i].call})
\* the execute calls made directly from position i up to position j, in order
SubCalls(i, j, depth) ==
    SortedSeq({k \in (i + 1)..(j - 1) : trace[k].ev = "exec" /\ trace[k].depth = depth})
\* the texts at the positions ps, concatenated
RECURSIVE OutsOf(_, _)
OutsOf(ps, k) == IF k > Len(ps) THEN <<>> ELSE trace[LeftAt(ps[k])].out \o OutsOf(ps, k + 1)
RECURSIVE ErrsOf(_, _)
ErrsOf(ps, k) == IF k > Len(ps) THEN <<>> ELSE trace[LeftAt(ps[k])].err \o ErrsOf(ps, k + 1)
SameStage(a, b) == a.call = b.call /\ a.chain = b.chain /\ a.stage = b.stage

(***************************************************************************)
(* The dispatch of stages                                                  *)
(***************************************************************************)
\* C1: a builtin is invoked only when its name is in the allowlist of the
\* context, at every depth (the calls xargs and the for loop make included);
\* a stage whose command is not allowed returns ("", "command not allowed:
\* <cmd>", 126) and nothing is run for it; and the allowlist a call works
\* with never grows beyond the one the top-level call started with.
C1_DispatchWithinAllowlist ==
    \A i \in 1..Len(trace) :
        LET e == trace[i]
        IN  /\ e.allowed \subseteq EffectiveAllowed
            /\ e.ev = "run" => e.argv[1] \in e.allowed
            /\ (e.ev = "stage" /\ e.argv # <<>> /\ e.argv[1] \notin e.allowed) =>
                   /\ e.out = <<>>
                   /\ e.err = Chars("command not allowed: ") \o e.argv[1]
                   /\ e.code = 126
                   /\ \A j \in Events("run") : ~SameStage(trace[j], e)

\* a for loop whose body pipes into xargs, under the restricted allowlist:
\* echo and xargs run two calls deep, cat is refused three calls deep
C1_Witness ==
    /\ ctxAllowed = RestrictedAllowed
    /\ result.state = "returned"
    /\ \E i \in Events("run") : trace[i].depth = 2 /\ trace[i].argv[1] = Chars("xargs")
    /\ \E i \in Events("stage") :
           /\ trace[i].depth = 3
           /\ trace[i].argv[1] = Chars("cat")
           /\ trace[i].code = 126

\* C2: within one chain, once a stage returns a non-zero exit code no later
\* stage of that chain is invoked, so its stdout is piped to nothing, and the
\* result of the chain is exactly the triple of the failing stage.
C2_PipelineStopsAtFailingStage ==
    \A i \in Events("stage") :
        LET e == trace[i]
        IN  e.code # 0 =>
              /\ i < Len(trace)
              /\ trace[i + 1].ev = "chain"
              /\ trace[i + 1].call = e.call /\ trace[i + 1].chain = e.chain
              /\ trace[i + 1].out = e.out /\ trace[i + 1].err = e.err
              /\ trace[i + 1].code = e.code
              /\ \A j \in (i + 1)..Len(trace) :
                     trace[j].ev \in {"run", "stage"} =>
                         ~(trace[j].call = e.call /\ trace[j].chain = e.chain)

\* xargs fails with a non-empty stdout in the middle of a pipeline: wc is
\* never run and the call returns what xargs returned
C2_Witness ==
    /\ command = Chars("echo README.txt nope | xargs -I F cat F | wc -l")
    /\ result.state = "returned"
    /\ result.out = Chars("Level 4-2 key roulette lab\n")
    /\ result.code = 1
    /\ \E i \in Events("stage") :
           trace[i].depth = 1 /\ trace[i].stage = 2 /\ trace[i].code = 1 /\ trace[i].out # <<>>
    /\ \A i \in Events("run") : trace[i].argv[1] # Chars("wc")

\* C3: the chains of a command run from left to right, every stage being the
\* one the parser put at that place; once a chain ends with a non-zero exit
\* code no stage of a later chain is invoked; and the call returns the exit
\* code of the first failing chain, or 0 when every chain succeeded.
C3_ChainsStopAtFailingChain ==
    \A i \in Events("exec") :
        LET e == trace[i]
            ended == {k \in Events("chain") : trace[k].call = e.call}
            failed == {k \in ended : trace[k].code # 0}
            staged == {s \in Events("run") \cup Events("stage") : trace[s].call = e.call}
            Placed(chains) ==
                \A s \in staged : trace[s].argv = chains[trace[s].chain][trace[s].stage]
        IN  /\ \A k \in ended : trace[k].chain = Cardinality({l \in ended : l <= k})
            /\ staged # {} => Placed(parse_command_line(e.text).chains)
            /\ \A s \in staged, k \in ended :
                   IF trace[k].chain < trace[s].chain
                   THEN k < s /\ trace[k].code = 0
                   ELSE s < k
            /\ (ended # {} /\ trace[LeftAt(i)].ev = "return") =>
                   trace[LeftAt(i)].code = IF failed = {} THEN 0 ELSE trace[Min(failed)].code

\* the second of three chains fails: the third is never started
C3_Witness ==
    /\ command = Chars("echo one && cat nope && echo three")
    /\ result.state = "returned"
    /\ result.code = 1
    /\ \E k \in Events("chain") : trace[k].chain = 1 /\ trace[k].code = 0
    /\ \E k \in Events("chain") : trace[k].chain = 2 /\ trace[k].code = 1
    /\ \A k \in 1..Len(trace) : trace[k].chain < 3

\* C4: execute always returns a triple: no exception leaves an execute call,
\* neither the top-level one nor one made by xargs or by the for loop.
C4_NoExceptionEscapes ==
    /\ result.state # "raised"
    /\ Events("raise") = {}

(***************************************************************************)
(* The limits                                                              *)
(***************************************************************************)
TooLong == Chars("command too long (max 1250)")
TooManyStages == Chars("too many pipeline stages (max 8)")
\* the number of stages the parser finds in a command it accepts, else 0
StagesIn(parsed) == IF parsed.err # <<>> THEN 0 ELSE CountStages(parsed.chains, 1)
\* the call entered at position i is refused with msg before anything runs
RefusedAt(i, msg) ==
    /\ i < Len(trace)
    /\ trace[i + 1].ev = "return"
    /\ trace[i + 1].call = trace[i].call
    /\ trace[i + 1].out = <<>>
    /\ trace[i + 1].err = msg
    /\ trace[i + 1].code = 1
    /\ trace[i + 1].cwd = trace[i].cwd
    /\ i = 1 => cwd = trace[i].cwd
\* the call entered at position i got to its stages, or to its loop
StartedAt(i) ==
    \E k \in (i + 1)..Len(trace) :
        trace[k].ev \in {"stage", "loop"} /\ trace[k].call = trace[i].call

\* C5: a command of more than 1250 characters returns ("", "command too long
\* (max 1250)", 1), and a command the parser splits into more than 8 stages
\* over all its chains returns ("", "too many pipeline stages (max 8)", 1);
\* in both cases no builtin is invoked and the cwd stays what it was.  A
\* command of exactly 1250 characters and a command of exactly 8 stages are
\* not refused for their size.  This holds for every call of execute, the
\* ones made by xargs and by the for loop included.
C5_InputAndStageLimits ==
    \A i \in Events("exec") :
        LET text == trace[i].text
            Sized(looped, stages) ==
                /\ (~looped /\ stages > 8) => RefusedAt(i, TooManyStages)
                /\ (looped \/ stages \in 1..8) => StartedAt(i)
            Split(looped) ==
                Sized(looped, IF looped THEN 0 ELSE StagesIn(parse_command_line(text)))
        IN  IF Len(text) > 1250 THEN RefusedAt(i, TooLong)
            ELSE Split(ForLoopMatch(text).ok)

\* a command of 1251 characters that starts with cd is refused where a
\* session has moved to /workspace/tokens, and the session stays there
C5_Witness ==
    /\ Len(command) = 1251
    /\ StartsWith(command, Chars("cd / && echo "))
    /\ result = [state |-> "returned", out |-> <<>>, err |-> TooLong, code |-> 1, exc |-> ""]
    /\ Events("run") = {}
    /\ cwd = Chars("/workspace/tokens")

Marker == Chars("\n...(truncated)\n")
\* the positions where the marker starts in a text
MarkersIn(text) == {k \in 1..Len(text) : StartsWithAt(text, Marker, k)}
\* what a call leaves before it truncates: the result of its last chain, or
\* the joined outputs of its loop
MadeAt(i) ==
    {k \in Events("chain") \cup Events("loop") : k > i /\ trace[k].call = trace[i].call}
\* cut is whole: the longest prefix of whole characters of whole that fits
\* into 50,000 bytes, followed by the marker
CutOnce(whole, cut) ==
    LET k == Len(cut) - Len(Marker)
    IN  /\ k >= 0
        /\ k < Len(whole)
        /\ cut = SubSeq(whole, 1, k) \o Marker
        /\ ByteLen(SubSeq(whole, 1, k)) <= 50000
        /\ ByteLen(SubSeq(whole, 1, k + 1)) > 50000
        /\ ByteLen(cut) <= 50000 + 16
        /\ EndsWith(cut, Marker)

\* C6 (as amended): for every call of execute that returns, at any depth, and
\* for stdout and stderr alike: a text of at most 50,000 UTF-8 bytes is
\* returned unchanged; a longer one is returned as its longest prefix of
\* whole characters that fits into 50,000 bytes followed by the marker
\* "\n...(truncated)\n", so it has at most 50,016 bytes and ends with the
\* marker, which is appended exactly once.
C6_OutputCutAtLimit ==
    \A i \in Events("exec") :
        LET left == trace[LeftAt(i)]
            Cut(whole, cut) == IF ByteLen(whole) <= 50000 THEN cut = whole
                               ELSE CutOnce(whole, cut)
            Both(made) == Cut(made.out, left.out) /\ Cut(made.err, left.err)
        IN  (left.ev = "return" /\ MadeAt(i) # {}) => Both(trace[Max(MadeAt(i))])

\* C6 (as stated): as above, but a truncated text contains the marker exactly
\* once.
C6_MarkerExactlyOnce ==
    \A i \in Events("exec") :
        LET left == trace[LeftAt(i)]
            Cut(whole, cut) ==
                IF ByteLen(whole) <= 50000 THEN cut = whole
                ELSE /\ ByteLen(cut) <= 50000 + 16
                     /\ EndsWith(cut, Marker)
                     /\ Cardinality(MarkersIn(cut)) = 1
            Both(made) == Cut(made.out, left.out) /\ Cut(made.err, left.err)
        IN  (left.ev = "return" /\ MadeAt(i) # {}) => Both(trace[Max(MadeAt(i))])

\* a for loop that only echoes lines ending like the marker, often enough to
\* pass the limit: the result is cut, ends with the marker and holds it
\* more than once
C6_Witness ==
    /\ command = ForText(1, MarkedTimes, MarkedEcho)
    /\ result.state = "returned"
    /\ ByteLen(result.out) > 50000
    /\ EndsWith(result.out, Marker)
    /\ Cardinality(MarkersIn(result.out)) > 1
    /\ \A i \in Events("run") : trace[i].argv[1] = Chars("echo")

(***************************************************************************)
(* The for loop, xargs and base64                                          *)
(***************************************************************************)
\* the body of a for loop with the loop variable replaced by a value
RenderedBody(fl, v) ==
    Replace(Replace(fl.body, Chars("${") \o fl.var_name \o Chars("}"), IntToStr(v)),
            Chars("$") \o fl.var_name, IntToStr(v))

\* C7: a for-loop command runs its body once for every integer from START
\* to END inclusive, ascending or descending, with $VAR and ${VAR} replaced
\* by the value; it goes on after an iteration that fails; and it returns
\* the concatenated stdout and stderr of the iterations with the exit code
\* of the last one.
C7_ForLoopRunsEveryIteration ==
    \A i \in Events("exec") :
        LET e == trace[i]
            left == LeftAt(i)
            Runs(fl, start, end) ==
                LET n == (IF end >= start THEN end - start ELSE start - end) + 1
                    step == IF end >= start THEN 1 ELSE -1
                    subs == SubCalls(i, left, e.depth + 1)
                IN  /\ Len(subs) = n
                    /\ \A k \in 1..Len(subs) :
                           trace[subs[k]].text = RenderedBody(fl, start + (k - 1) * step)
                    /\ trace[left].ev = "return"
                    /\ trace[left].out = OutsOf(subs, 1)
                    /\ trace[left].err = ErrsOf(subs, 1)
                    /\ trace[left].code = trace[LeftAt(subs[Len(subs)])].code
            Looped(fl) ==
                fl.ok => Runs(fl, ParseInt(fl.start_s).val, ParseInt(fl.end_s).val)
        IN  Len(e.text) <= 1250 => Looped(ForLoopMatch(e.text))

\* C8: with echo and xargs allowed, "echo a b | xargs -I{} echo {}" returns
\* stdout "a\nb\n" and exit code 0, from two nested calls of execute.
C8_XargsAttachedPlaceholder ==
    ( /\ command = Chars("echo a b | xargs -I{} echo {}")
      /\ result.state # "idle"
      /\ {Chars("echo"), Chars("xargs")} \subseteq EffectiveAllowed
      /\ slow = {} ) =>
        /\ result = [state |-> "returned", out |-> Chars("a\nb\n"), err |-> <<>>,
                     code |-> 0, exc |-> ""]
        /\ Cardinality({i \in Events("exec") : trace[i].depth = 2}) = 2

\* C9: xargs with a command template "-I P cmd..." and N tokens on stdin
\* calls execute exactly N times, once per token in the order of the tokens
\* and with the same allowlist, whether or not earlier calls failed; it
\* returns the concatenated stdout and stderr of the calls and the exit code
\* of the last one.
C9_XargsCallsPerToken ==
    slow = {} =>
    \A i \in Events("run") :
        LET x == trace[i]
            tokens == SplitWhitespace(x.text)
            done == {k \in Events("stage") : SameStage(trace[k], x)}
            Calls(placeholder, template, k) ==
                LET subs == SubCalls(i, k, x.depth + 1)
                IN  /\ Len(subs) = Len(tokens)
                    /\ \A j \in 1..Len(subs) :
                           /\ trace[subs[j]].text =
                                  shlex_join([a \in 1..Len(template) |->
                                                 Replace(template[a], placeholder, tokens[j])])
                           /\ trace[subs[j]].allowed = x.allowed
                    /\ trace[k].out = OutsOf(subs, 1)
                    /\ trace[k].err = ErrsOf(subs, 1)
                    /\ trace[k].code = trace[LeftAt(subs[Len(subs)])].code
        IN  ( /\ x.argv[1] = Chars("xargs")
              /\ Len(x.argv) >= 4
              /\ x.argv[2] = Chars("-I")
              /\ x.argv[4] # Chars("-I")
              /\ tokens # <<>> ) =>
                /\ done # {}
                /\ \A k \in done : Calls(x.argv[3], SubSeq(x.argv, 4, Len(x.argv)), k)

\* C10: where base64 is in the allowlist, "base64 TEXT" and "base64 -d TEXT"
\* are dispatched to the builtin: the call returns what run_base64 returns,
\* with exit code 0, and never 126 or 127.
C10_Base64Dispatched ==
    \A i \in Events("exec") :
        LET e == trace[i]
            left == trace[LeftAt(i)]
            Same(r) == /\ left.ev = "return"
                       /\ left.out = r.out /\ left.err = r.err /\ left.code = r.code
                       /\ left.code = 0
            Ran(argv) ==
                Same(run_base64(Tail(argv), <<>>,
                                NewContext(env, e.cwd, e.allowed, shellAllowed, {})))
        IN  ( /\ e.text \in {Chars("base64 hi"), Chars("base64 -d aGk=")}
              /\ Chars("base64") \in e.allowed
              /\ slow = {} ) =>
                /\ left.code \notin {126, 127}
                /\ Ran(SplitWhitespace(e.text))

(***************************************************************************)
(* VirtualHTTP.request called directly, over route tables that hold each   *)
(* kind of entry the lookup distinguishes                                  *)
(***************************************************************************)
QueryEntry == [key |-> Chars("GET:/parcels?id=7"), handler |-> "", status |-> 200,
               headers |-> DefaultHeaders, body |-> Chars("{\"id\":7}")]
PathEntry == [key |-> Chars("GET:/parcels"), handler |-> "", status |-> 200,
              headers |-> DefaultHeaders, body |-> Chars("{\"items\":[]}")]
PostEntry == [key |-> Chars("POST:/parcels"), handler |-> "", status |-> 403,
              headers |-> DefaultHeaders, body |-> Chars("{\"ok\":false}")]
WildEntry == [key |-> <<"*">>, handler |-> "", status |-> 200,
              headers |-> <<[k |-> Chars("x-any"), v |-> <<"1">>]>>, body |-> Chars("{\"any\":true}")]
WildHandler == CHOOSE r \in Level45Routes : r.key = <<"*">>
RouteTables ==
    {keyed \cup wild : keyed \in SUBSET {QueryEntry, PathEntry, PostEntry},
                       wild \in {{}, {WildEntry}, {WildHandler}}}

\* the requests, each with the method, path and query it asks for
SpecUrl == Chars("http://hub/api/v1/challenges/level4_5/actions/webhook/spec")
Requests ==
    { [method |-> <<>>, url |-> Chars("http://shop/parcels?id=7"), parses |-> TRUE,
       verb |-> Chars("GET"), path |-> Chars("/parcels"), query |-> Chars("id=7")],
      [method |-> Chars("get"), url |-> Chars("http://shop/parcels?id=7"), parses |-> TRUE,
       verb |-> Chars("GET"), path |-> Chars("/parcels"), query |-> Chars("id=7")],
      [method |-> Chars("GET"), url |-> Chars("/parcels?id=7"), parses |-> TRUE,
       verb |-> Chars("GET"), path |-> Chars("/parcels"), query |-> Chars("id=7")],
      [method |-> Chars("GET"), url |-> Chars("http://shop/parcels?id=8"), parses |-> TRUE,
       verb |-> Chars("GET"), path |-> Chars("/parcels"), query |-> Chars("id=8")],
      [method |-> Chars("GET"), url |-> Chars("http://shop/parcels"), parses |-> TRUE,
       verb |-> Chars("GET"), path |-> Chars("/parcels"), query |-> <<>>],
      [method |-> Chars("GET"), url |-> Chars("http://shop/parcels?"), parses |-> TRUE,
       verb |-> Chars("GET"), path |-> Chars("/parcels"), query |-> <<>>],
      [method |-> Chars("GET"), url |-> Chars("http://shop/parcels#id=7"), parses |-> TRUE,
       verb |-> Chars("GET"), path |-> Chars("/parcels"), query |-> <<>>],
      [method |-> Chars("Post"), url |-> Chars("http://shop/parcels?id=7"), parses |-> TRUE,
       verb |-> Chars("POST"), path |-> Chars("/parcels"), query |-> Chars("id=7")],
      [method |-> Chars("GET"), url |-> Chars("http://shop"), parses |-> TRUE,
       verb |-> Chars("GET"), path |-> <<"/">>, query |-> <<>>],
      [method |-> Chars("GET"), url |-> SpecUrl, parses |-> TRUE,
       verb |-> Chars("GET"), path |-> Chars("/api/v1/challenges/level4_5/actions/webhook/spec"),
       query |-> <<>>],
      [method |-> Chars("GET"), url |-> Chars("http://["), parses |-> FALSE,
       verb |-> Chars("GET"), path |-> <<>>, query |-> <<>>] }

\* the context a direct call is made with
AskContext(table) ==
    [NewContext(env, cwd, {}, shellAllowed, {}) EXCEPT !.routes = table, !.hooks = webhooks]

\* the caller has read the answer of a direct call
Forget ==
    /\ asked # NotAsked
    /\ asked' = NotAsked
    /\ answer' = <<>>
    /\ UNCHANGED <<shellAllowed, env, cwd, ctxAllowed, slow, command, result, trace,
                   shellRoutes, webhooks, sessions, session, clock>>

AskRequest ==
    \E table \in RouteTables, rq \in Requests :
        /\ asked = NotAsked
        /\ LET Got(r) ==
                   /\ answer' = [exc |-> r.exc, err |-> r.err, resp |-> r.resp]
                   /\ webhooks' = r.m.hooks
           IN  Got(request(table, rq.method, rq.url, <<>>, <<>>, AskContext(table)))
        /\ asked' = [fn |-> "request",
                     args |-> [routes |-> table, method |-> rq.method, url |-> rq.url]]
        /\ UNCHANGED <<shellAllowed, env, cwd, ctxAllowed, slow, command, result, trace,
                       shellRoutes, sessions, session, clock>>

NextRequest == AskRequest \/ Forget

SpecRequest == Init /\ [][NextRequest]_vars

C12_CurlExitZero ==
    \A i \in Events("run") :
        trace[i].argv[1] = Chars("curl") =>
            LET hasUrl == parse_curl_args(Tail(trace[i].argv)).url # <<>>
            IN  \E j \in (i + 1)..Len(trace) :
                    /\ trace[j].ev \in {"stage", "timeout"}
                    /\ SameStage(trace[i], trace[j])
                    /\ trace[j].code = IF hasUrl THEN 0 ELSE 1

(***************************************************************************)
(* _parse_curl_args called directly, over argument lists that put -X, -d   *)
(* and the URL in every order                                              *)
(***************************************************************************)
MethodPieces == {<<>>} \cup {<<Chars("-X"), x>> : x \in {Chars("GET"), Chars("get"), Chars("PUT"),
                                                       Chars("POST"), Chars("DELETE")}}
DataPieces == {<<>>} \cup {<<d, Chars("{\"id\":7}")>> :
                              d \in {Chars("-d"), Chars("--data"), Chars("--data-raw")}}
UrlPiece == <<Chars("http://shop/parcels")>>
Orders(x, d) ==
    {x \o d \o UrlPiece, d \o x \o UrlPiece, UrlPiece \o x \o d, UrlPiece \o d \o x,
     x \o UrlPiece \o d, d \o UrlPiece \o x}

AskCurlArgs ==
    \E x \in MethodPieces, d \in DataPieces :
        \E argv \in Orders(x, d) :
            /\ asked = NotAsked
            /\ asked' = [fn |-> "_parse_curl_args", args |-> [argv |-> argv, x |-> x, d |-> d]]
            /\ answer' = parse_curl_args(argv)
            /\ UNCHANGED <<shellAllowed, env, cwd, ctxAllowed, slow, command, result, trace,
                           shellRoutes, webhooks, sessions, session, clock>>

NextCurlArgs == AskCurlArgs \/ Forget

SpecCurlArgs == Init /\ [][NextCurlArgs]_vars

\* C13: the method is the one an explicit -X names, whatever the order of the
\* arguments and whether or not -d is given; without -X it is POST when a
\* body is given with -d, --data or --data-raw, and GET otherwise.
C13_ExplicitMethodKept ==
    asked.fn = "_parse_curl_args" =>
        answer.method = IF asked.args.x # <<>> THEN Upper(asked.args.x[2])
                        ELSE IF asked.args.d # <<>> THEN Chars("POST")
                        ELSE Chars("GET")

(***************************************************************************)
(* VirtualFS.resolve called directly, over every path of up to MaxPath     *)
(* characters of "/", "." and a letter, and the working directories a      *)
(* context can hold                                                        *)
(***************************************************************************)
MaxPath == 4
PathChars == {"/", ".", "a"}
Paths ==
    UNION {[1..n -> PathChars] : n \in 0..MaxPath} \cup {<<"c">>, Chars("/x"), Chars("../c/./..")}
Cwds == {<<"/">>, Chars("/a"), Chars("/a/b"), Chars("//a")}

AskResolve ==
    \E path \in Paths, dir \in Cwds :
        /\ asked = NotAsked
        /\ asked' = [fn |-> "resolve", args |-> [path |-> path, cwd |-> dir]]
        /\ answer' = resolve(path, dir)
        /\ UNCHANGED <<shellAllowed, env, cwd, ctxAllowed, slow, command, result, trace,
                       shellRoutes, webhooks, sessions, session, clock>>

NextResolve == AskResolve \/ Forget

SpecResolve == Init /\ [][NextResolve]_vars

\* the names of a path, in order
Segments(path) == SelectSeq(SplitOn(path, "/"), NotEmpty)
\* the location a walk over the names reaches from the location `at`: "."
\* stays, ".." goes to the parent, and the parent of the root is the root
RECURSIVE WalkFrom(_, _, _)
WalkFrom(names, i, at) ==
    IF i > Len(names) THEN at
    ELSE IF names[i] = <<".">> THEN WalkFrom(names, i + 1, at)
    ELSE IF names[i] = <<".", ".">>
    THEN WalkFrom(names, i + 1, IF at = <<>> THEN at ELSE SubSeq(at, 1, Len(at) - 1))
    ELSE WalkFrom(names, i + 1, Append(at, names[i]))

\* C14: resolve(path, cwd) starts with "/", has no "." and no ".." segment,
\* and names the location reached by walking the path from the root when the
\* path is absolute and from cwd when it is relative (never above the root);
\* resolve("..", "/a/b") = "/a", resolve("c", "/a/b") = "/a/b/c",
\* resolve("/x", "/a/b") = "/x".
C14_ResolveNormalized ==
    asked.fn = "resolve" =>
        LET path == asked.args.path
            dir == asked.args.cwd
            start == IF StartsWith(path, <<"/">>) THEN <<>> ELSE Segments(dir)
        IN  /\ StartsWith(answer, <<"/">>)
            /\ \A k \in 1..Len(Segments(answer)) :
                   Segments(answer)[k] \notin {<<".">>, <<".", ".">>}
            /\ Segments(answer) = WalkFrom(Segments(path), 1, start)
            /\ StartsWith(path, <<"/">>) => \A other \in Cwds : resolve(path, other) = answer
            /\ (path = Chars("..") /\ dir = Chars("/a/b")) => answer = Chars("/a")
            /\ (path = <<"c">> /\ dir = Chars("/a/b")) => answer = Chars("/a/b/c")
            /\ (path = Chars("/x") /\ dir = Chars("/a/b")) => answer = Chars("/x")

\* a relative path that climbs above cwd was resolved
C14_Witness ==
    /\ asked.fn = "resolve"
    /\ asked.args.path = Chars("../c/./..")
    /\ asked.args.cwd = Chars("/a/b")
    /\ answer = Chars("/a")

(***************************************************************************)
(* The working directory                                                   *)
(***************************************************************************)
\* the target of the cd run logged in event e
CdTarget(e) == IF Len(e.argv) > 1 THEN e.argv[2] ELSE EnvGet(env, "HOME", <<"/">>)

\* C15: between two consecutive events of a call ctx.cwd changes only when
\* the second one is the return of a cd that gave exit code 0, and then to the
\* resolved target, an existing directory; a cd whose target is missing or is
\* a file gives exit code 1 and leaves cwd as it was; the cwd the session
\* keeps is an existing directory after every call.
C15_CwdChangedOnlyByCd ==
    /\ is_dir(cwd, <<"/">>)
    /\ \A k \in 1..(Len(trace) - 1) :
           LET before == trace[k]
               after == trace[k + 1]
               cdReturns == /\ before.ev = "run"
                            /\ before.argv[1] = Chars("cd")
                            /\ after.ev \in {"stage", "timeout"}
                            /\ SameStage(before, after)
           IN  /\ after.cwd # before.cwd =>
                      /\ cdReturns
                      /\ after.code = 0
                      /\ after.cwd = resolve(CdTarget(before), before.cwd)
                      /\ is_dir(after.cwd, <<"/">>)
               /\ (cdReturns /\ ~is_dir(CdTarget(before), before.cwd)) =>
                      /\ after.code = 1
                      /\ after.cwd = before.cwd
    /\ (result.state = "returned" /\ trace # <<>>) => cwd = trace[Len(trace)].cwd

\* a cd made through xargs succeeded, and the session keeps the directory it
\* moved to
C15_Witness ==
    /\ result.state = "returned"
    /\ command = Chars("echo tokens | xargs -I T cd T")
    /\ cwd = Chars("/workspace/tokens")
    /\ \E k \in 1..(Len(trace) - 1) :
           /\ trace[k].ev = "run"
           /\ trace[k].argv = <<Chars("cd"), Chars("tokens")>>
           /\ trace[k + 1].cwd # trace[k].cwd

(***************************************************************************)
(* parse_command_line called directly, over every command line of up to    *)
(* MaxPieces pieces: a letter, a blank, the operators, the quotes and the  *)
(* backslash                                                               *)
(***************************************************************************)
MaxPieces == 4
Pieces == {<<"a">>, <<" ">>, <<"|">>, Chars("&&"), <<"'">>, <<"\"">>, <<"\\">>}
PieceLines == {Flatten(ps, 1, Len(ps)) : ps \in UNION {[1..n -> Pieces] : n \in 0..MaxPieces}}
QuotedLines == {Chars("grep \"a|b\" file"), Chars("echo 'a\\' | cat"), Chars("echo 'a && b' | cat")}
CommandLines == PieceLines \cup QuotedLines

AskParse ==
    \E line \in CommandLines :
        /\ asked = NotAsked
        /\ asked' = [fn |-> "parse_command_line", args |-> [command |-> line]]
        /\ answer' = parse_command_line(line)
        /\ UNCHANGED <<shellAllowed, env, cwd, ctxAllowed, slow, command, result, trace,
                       shellRoutes, webhooks, sessions, session, clock>>

NextParse == AskParse \/ Forget

SpecParse == Init /\ [][NextParse]_vars

\* the state of the word tokenizer after each character of the whole line
TokenizerStates(text) ==
    ShlexStates(text, 1, Len(text), [mode |-> " ", esc |-> " ", emit |-> 0, sep |-> FALSE])
\* character i is outside quotes and not escaped for the word tokenizer
Unquoted(st, i) == i = 1 \/ st[i - 1].mode \in {" ", "a"}
\* the && operators outside quotes, taken from the left, from position i on
RECURSIVE AndOperators(_, _, _)
AndOperators(text, st, i) ==
    IF i >= Len(text) THEN 0
    ELSE IF text[i] = "&" /\ text[i + 1] = "&" /\ Unquoted(st, i)
    THEN 1 + AndOperators(text, st, i + 2)
    ELSE AndOperators(text, st, i + 1)
\* the occurrences of the character c in the argv tokens of all stages
InArgv(chains, c) ==
    Cardinality({p \in UNION {UNION {UNION {{<<x, y, z, i>> : i \in 1..Len(chains[x][y][z])} :
                                              z \in 1..Len(chains[x][y])} :
                                      y \in 1..Len(chains[x])} :
                              x \in 1..Len(chains)} :
                    chains[p[1]][p[2]][p[3]][p[4]] = c})

\* C16: when the line parses, no operator that is outside quotes for the word
\* tokenizer ends up in an argv token and every quoted or escaped one does:
\* the "|" characters in the argv tokens are exactly the quoted or escaped
\* ones of the line, the "&" characters those that are not part of a "&&"
\* outside quotes, and grep "a|b" file is one stage with argv [grep, a|b, file].
C16_SplitsOutsideQuotes ==
    asked.fn = "parse_command_line" =>
        LET text == asked.args.command
            Holds(st) ==
                /\ InArgv(answer.chains, "|") =
                       Cardinality({i \in 1..Len(text) : text[i] = "|" /\ ~Unquoted(st, i)})
                /\ InArgv(answer.chains, "&") =
                       Cardinality({i \in 1..Len(text) : text[i] = "&"})
                           - 2 * AndOperators(text, st, 1)
        IN  /\ answer.err = <<>> => Holds(TokenizerStates(text))
            /\ text = Chars("grep \"a|b\" file") =>
                   answer.chains = << << <<Chars("grep"), Chars("a|b"), Chars("file")>> >> >>

(***************************************************************************)
(* seq called directly with one, two or three arguments: the integers      *)
(* -MaxArg..MaxArg and texts that are no integers                          *)
(***************************************************************************)
MaxArg == 3
SeqArgs ==
    {[text |-> IntToStr(v), ok |-> TRUE, val |-> v] : v \in (0 - MaxArg)..MaxArg}
        \cup {[text |-> <<"x">>, ok |-> FALSE, val |-> 0],
              [text |-> Chars("1.5"), ok |-> FALSE, val |-> 0]}
SeqArgLists == UNION {[1..n -> SeqArgs] : n \in 1..3}

AskSeq ==
    \E given \in SeqArgLists :
        /\ asked = NotAsked
        /\ asked' = [fn |-> "run_seq", args |-> [given |-> given]]
        /\ LET Got(r) == answer' = [out |-> r.out, err |-> r.err, code |-> r.code]
           IN  Got(run_seq([k \in 1..Len(given) |-> given[k].text], <<>>,
                           NewContext(env, cwd, {}, shellAllowed, {})))
        /\ UNCHANGED <<shellAllowed, env, cwd, ctxAllowed, slow, command, result, trace,
                       shellRoutes, webhooks, sessions, session, clock>>

NextSeq == AskSeq \/ Forget

SpecSeq == Init /\ [][NextSeq]_vars

\* count values from start in steps of step, each on a line of its own
Counted(start, step, count) ==
    Flatten([k \in 1..count |-> IntToStr(start + (k - 1) * step) \o <<"\n">>], 1, count)

\* C17: seq END prints 1..END; seq START END prints START..END inclusive,
\* upwards when END >= START and downwards otherwise; seq START END STEP
\* prints START, START+STEP, ... as long as the value has not passed END in
\* the direction of STEP, nothing when STEP points away from END; every value
\* is on a line of its own; STEP = 0 or an argument that is no integer gives
\* exit code 1 and no output.
C17_SeqCounts ==
    asked.fn = "run_seq" =>
        LET given == asked.args.given
            n == Len(given)
            numeric == \A k \in 1..n : given[k].ok
            start == IF n = 1 THEN 1 ELSE given[1].val
            end == IF n = 1 THEN given[1].val ELSE given[2].val
            step == IF n = 3 THEN given[3].val
                    ELSE IF n = 1 \/ end >= start THEN 1
                    ELSE -1
            count == IF step > 0 /\ end >= start THEN (end - start) \div step + 1
                     ELSE IF step < 0 /\ end <= start THEN (start - end) \div (0 - step) + 1
                     ELSE 0
        IN  IF ~numeric \/ step = 0
            THEN answer.code = 1 /\ answer.out = <<>>
            ELSE /\ answer.code = 0
                 /\ answer.err = <<>>
                 /\ answer.out = Counted(start, step, count)

\* seq 3 1 counted down
C17_Witness ==
    /\ asked.fn = "run_seq"
    /\ Len(asked.args.given) = 2
    /\ asked.args.given[1].val = 3
    /\ asked.args.given[2].val = 1
    /\ answer.out = Chars("3\n2\n1\n")
    /\ answer.code = 0

(***************************************************************************)
(* levels/level4_5.py: two learner sessions at the terminal of the level.  *)
(* Each has its own session object (token, stored cwd); _SHELL, its route  *)
(* handler and _STATE belong to the module.  The commands use no file of   *)
(* the level's tree.                                                       *)
(***************************************************************************)
\* sign_webhook_command(timestamp, raw_body)
sign_webhook_command(timestamp, raw_body) ==
    [out |-> compute_signature(PARTNER_WEBHOOK_SECRET, timestamp, raw_body) \o <<"\n">>,
     err |-> <<>>, code |-> 0]

\* terminal_exec_with_session(command, session): [out, err, code, exc, cwd,
\* hooks], with the cwd the session stores afterwards and _STATE afterwards
terminal_exec_with_session(cmd0, token, dir, hooks) ==
    LET cmd == Strip(cmd0)
        Still(out, err, code) ==
            [out |-> out, err |-> err, code |-> code, exc |-> "", cwd |-> dir, hooks |-> hooks]
        Signed(parts) ==
            IF parts.err # <<>> THEN Still(<<>>, Chars("sign-webhook error: ") \o parts.err, 1)
            ELSE IF Len(parts.tokens) < 3
            THEN Still(<<>>, Chars("usage: sign-webhook <timestamp> '<raw_json>'"), 1)
            ELSE Still(sign_webhook_command(parts.tokens[2], parts.tokens[3]).out, <<>>, 0)
        Hashed(parts) ==
            IF parts.err # <<>> THEN Still(<<>>, Chars("hmacsha256 error: ") \o parts.err, 1)
            ELSE IF Len(parts.tokens) < 3
            THEN Still(<<>>, Chars("usage: hmacsha256 <secret> '<message>'"), 1)
            ELSE Still(hmac_sha256_hex(parts.tokens[2], parts.tokens[3]) \o <<"\n">>, <<>>, 0)
        Ran(r) ==
            [out |-> r.out, err |-> r.err, code |-> r.code, exc |-> r.exc,
             cwd |-> IF r.exc = "" THEN r.m.cwd ELSE dir, hooks |-> r.m.hooks]
    IN  IF StartsWith(cmd, Chars("sign-webhook ")) THEN Signed(shlex_split(cmd))
        ELSE IF StartsWith(cmd, Chars("hmacsha256 ")) THEN Hashed(shlex_split(cmd))
        ELSE Ran(execute(cmd,
                 [NewContext({[k |-> Chars("USER"), v |-> Chars("user_1004")],
                              [k |-> Chars("SESSION_TOKEN"), v |-> token],
                              [k |-> Chars("HOME"), v |-> Chars("/workspace")]},
                             dir, {}, Level45Allowed, {})
                     EXCEPT !.routes = Level45Routes, !.hooks = hooks]))

\* what the learners send
SessionCommands(s) ==
    {SignCommand, DeliverCommand, TrackCommand(SessionToken(s)), Chars("cd / && pwd")}

\* the number of commands one session sends
MaxHistory == 2

TerminalExec ==
    \E s \in SessionIds :
        \E cmd \in SessionCommands(s) :
            /\ Len(sessions[s].history) < MaxHistory
            /\ LET Answered(r) ==
                       /\ sessions' = [sessions EXCEPT ![s] =
                              [cwd |-> r.cwd, history |-> Append(@.history, cmd),
                               out |-> r.out, err |-> r.err, code |-> r.code, exc |-> r.exc]]
                       /\ webhooks' = r.hooks
               IN  Answered(terminal_exec_with_session(cmd, SessionToken(s), sessions[s].cwd,
                                                       webhooks))
            /\ UNCHANGED <<shellAllowed, env, cwd, ctxAllowed, slow, command, result, trace,
                           shellRoutes, asked, answer, session, clock>>

NextSessions == TerminalExec

SpecSessions == Init /\ [][NextSessions]_vars

\* the answer to the last of the commands `history` when no other session
\* ever sends anything: the commands run in order from the module as loaded
RECURSIVE Alone(_, _, _, _, _)
Alone(history, i, token, dir, hooks) ==
    LET Then(r) == IF i = Len(history) THEN r
                   ELSE Alone(history, i + 1, token, r.cwd, r.hooks)
    IN  Then(terminal_exec_with_session(history[i], token, dir, hooks))

\* C18: what a session is answered depends on the commands of that session
\* alone: the answer to its last command is the one it would get if no other
\* session had sent anything.
C18_SessionsIsolated ==
    \A s \in SessionIds :
        sessions[s].history # <<>> =>
            LET Same(r) == /\ sessions[s].out = r.out
                           /\ sessions[s].err = r.err
                           /\ sessions[s].code = r.code
                           /\ sessions[s].exc = r.exc
            IN  Same(Alone(sessions[s].history, 1, SessionToken(s), Chars("/workspace"),
                           InitialHooks))

(***************************************************************************)
(* The timeout                                                             *)
(***************************************************************************)
\* C19: a stage times out only after its builtin has returned; its result is
\* then ("", "command timeout: <cmd>", 124), no further stage or chain of the
\* call runs and the call returns 124; what the builtin did stays done: the
\* cwd a cd moved to, the delivery a route handler of curl recorded, and the
\* commands xargs ran.
C19_TimeoutIsRetroactive ==
    \A k \in Events("timeout") :
        LET t == trace[k]
            runs == {i \in 1..(k - 1) : trace[i].ev = "run" /\ SameStage(trace[i], t)}
            ran == trace[Max(runs)]
        IN  /\ runs # {}
            /\ k < Len(trace)
            /\ trace[k + 1].ev = "stage"
            /\ SameStage(trace[k + 1], t)
            /\ trace[k + 1].out = <<>>
            /\ trace[k + 1].err = Chars("command timeout: ") \o t.argv[1]
            /\ trace[k + 1].code = 124
            /\ \A j \in (k + 2)..Len(trace) :
                   trace[j].call = t.call =>
                       /\ trace[j].ev \in {"chain", "return"}
                       /\ trace[j].ev = "chain" => trace[j].chain = t.chain
                       /\ trace[j].code = 124
            /\ \E j \in (k + 2)..Len(trace) :
                   trace[j].call = t.call /\ trace[j].ev = "return"
            /\ trace[k + 1].cwd = t.cwd
            /\ (t.argv[1] = Chars("cd") /\ t.code = 0) =>
                   /\ t.cwd = resolve(CdTarget(ran), ran.cwd)
                   /\ t.depth = 1 => cwd = t.cwd
            /\ (t.argv[1] = Chars("curl") /\ Contains(t.out, Chars("\"accepted\":true"))) =>
                   /\ Chars("EVT-1") \in webhooks.processedEventIds
                   /\ webhooks.parcelStatus[Chars("PD-1004")].status = Chars("delivered")
            /\ (t.argv[1] = Chars("xargs") /\ t.code = 0 /\ Strip(t.text) # <<>>
                    /\ Len(t.argv) > 3) =>
                   /\ \E j \in (Max(runs) + 1)..(k - 1) :
                          trace[j].ev = "exec" /\ trace[j].depth = t.depth + 1
                   /\ t.cwd = trace[k - 1].cwd

\* the delivery of a webhook timed out after the handler had recorded it, and
\* the chain behind it did not run
C19_Witness ==
    /\ result.state = "returned"
    /\ command = DeliverCommand \o Chars(" && echo sent")
    /\ result.code = 124
    /\ result.err = Chars("command timeout: curl")
    /\ Chars("EVT-1") \in webhooks.processedEventIds
    /\ \E k \in Events("timeout") : Contains(trace[k].out, Chars("\"accepted\":true"))

(***************************************************************************)
(* Pipes                                                                   *)
(***************************************************************************)
\* C20: the first stage of every chain of every call (the calls xargs and the
\* for loop make included) gets the empty string as stdin; every later stage
\* gets exactly the stdout of the stage before it, which returned 0, and
\* nothing of its stderr; echo hi | grep h gives "hi\n" and exit code 0.
C20_StdinIsPreviousStdout ==
    /\ \A k \in Events("run") \cup Events("stage") :
           LET e == trace[k]
               before == {i \in 1..(k - 1) :
                             /\ trace[i].ev = "stage"
                             /\ trace[i].call = e.call
                             /\ trace[i].chain = e.chain
                             /\ trace[i].stage = e.stage - 1}
           IN  IF e.stage = 1 THEN e.text = <<>>
               ELSE /\ before # {}
                    /\ \A i \in before : trace[i].code = 0 /\ e.text = trace[i].out
    /\ (command = Chars("echo hi | grep h") /\ result.state = "returned"
            /\ slow = {} /\ ctxAllowed = {}) =>
           /\ result.out = Chars("hi\n")
           /\ result.code = 0

\* xargs returned 0 with text on both stdout and stderr, and the stage behind
\* it read the stdout alone
C20_Witness ==
    \E k \in Events("run") :
        /\ trace[k].argv[1] = Chars("wc")
        /\ trace[k].stage = 3
        /\ \E i \in 1..(k - 1) :
               /\ trace[i].ev = "stage"
               /\ trace[i].call = trace[k].call
               /\ trace[i].stage = 2
               /\ trace[i].err # <<>>
               /\ trace[i].out # <<>>
               /\ trace[k].text = trace[i].out

(***************************************************************************)
(* What execute returns                                                    *)
(***************************************************************************)
\* C21: on the path that is not the for loop, the stdout and stderr an
\* execute call returns are those of the last stage it executed (after
\* truncate_output), and the exit code is that stage's: nothing of an earlier
\* chain or of an earlier stage's stderr is kept, so echo a && echo b returns
\* "b\n"; a command without any stage (empty, or made of empty stages only)
\* returns ("", "", 0).
C21_ReturnsLastStageOnly ==
    /\ \A i \in Events("exec") :
           LET e == trace[i]
               left == trace[LeftAt(i)]
               staged == {s \in Events("stage") : trace[s].call = e.call}
               Last(last) ==
                   /\ left.out = truncate_output(last.out)
                   /\ left.err = truncate_output(last.err)
                   /\ left.code = last.code
               Nothing(parsed) ==
                   (parsed.err = <<>> /\ parsed.chains = <<>>) =>
                       left.out = <<>> /\ left.err = <<>> /\ left.code = 0
           IN  (left.ev = "return" /\ ~ForLoopMatch(e.text).ok
                    /\ check_input_limit(e.text) = <<>>) =>
                   IF staged = {} THEN Nothing(parse_command_line(e.text))
                   ELSE Last(trace[Max(staged)])
    /\ (command = Chars("echo a && echo b") /\ result.state = "returned"
            /\ slow = {} /\ ctxAllowed = {}) =>
           result.out = Chars("b\n") /\ result.err = <<>> /\ result.code = 0

\* xargs succeeded with text on its stderr and wc ran after it: the call
\* returns the count of wc and an empty stderr
C21_Witness ==
    /\ command = Chars("echo nope README.txt | xargs -I F cat F | wc -l")
    /\ result.state = "returned"
    /\ result.err = <<>>
    /\ result.out = Chars("1\n")
    /\ \E s \in Events("stage") :
           trace[s].depth = 1 /\ trace[s].stage = 2 /\ trace[s].code = 0
               /\ trace[s].err # <<>>

\* C22: a stage whose command name is not in ctx.allowed returns exit code
\* 126, registered builtin or not; a name that is in ctx.allowed and has no
\* entry in COMMANDS returns ("", "command not found: <cmd>", 127); in both
\* cases no builtin is run for the stage and the cwd and the allowlist of the
\* context are what they were before it.  A context made with an empty
\* allowlist works with the shell's allowlist, and a shell made without one
\* has all of COMMANDS.
C22_DispatchFailuresOrdered ==
    /\ \A i \in Events("stage") :
           LET e == trace[i]
               Untouched ==
                   /\ \A j \in Events("run") \cup Events("timeout") : ~SameStage(trace[j], e)
                   /\ i > 1
                   /\ trace[i - 1].call = e.call
                   /\ trace[i - 1].cwd = e.cwd
                   /\ trace[i - 1].allowed = e.allowed
           IN  e.argv # <<>> =>
                   /\ e.argv[1] \notin e.allowed =>
                          /\ e.code = 126
                          /\ e.out = <<>>
                          /\ Untouched
                   /\ (e.argv[1] \in e.allowed /\ e.argv[1] \notin COMMANDS) =>
                          /\ e.code = 127
                          /\ e.out = <<>>
                          /\ e.err = Chars("command not found: ") \o e.argv[1]
                          /\ Untouched
    /\ \A i \in Events("exec") :
           trace[i].depth = 1 =>
               trace[i].allowed = IF ctxAllowed = {} THEN shellAllowed ELSE ctxAllowed
    /\ DefaultAllowed = COMMANDS

\* the level 4-5 shell, whose allowlist names base64, asked for base64 by a
\* context with an empty allowlist: the name is allowed and is not a builtin
C22_Witness ==
    /\ command = Chars("base64 hi")
    /\ ctxAllowed = {}
    /\ shellAllowed = Level45Allowed
    /\ result.state = "returned"
    /\ result.code = 127
    /\ result.err = Chars("command not found: base64")

(***************************************************************************)
(* The calls one execute call makes                                        *)
(***************************************************************************)
\* the number of places where "done" stands in a text
DoneCount(text) == Cardinality({i \in 1..Len(text) : StartsWithAt(text, Chars("done"), i)})
\* the execute calls made directly by the call entered at position i
CallsOf(i) ==
    {k \in (i + 1)..(LeftAt(i) - 1) : trace[k].ev = "exec" /\ trace[k].depth = trace[i].depth + 1}
\* the position where the builtin started at position k has returned, or
\* where its call is left when an exception passes through it
RunEnd(k) ==
    Min({j \in (k + 1)..Len(trace) :
            \/ trace[j].ev = "stage" /\ SameStage(trace[j], trace[k])
            \/ trace[j].ev \in {"return", "raise"} /\ trace[j].call = trace[k].call})

\* C23: what bounds the work of an execute call.  Every call that is entered
\* is left.  A for loop makes at most |END - START| + 1 calls, and the text
\* of each holds fewer "done" than the loop's own text, so the nesting of
\* loops is bounded by the text of the command; xargs makes at most one call
\* per token of its stdin, each of these calls starts with empty stdin and
\* makes no call itself, and where it names xargs it fails with "xargs: stdin
\* required"; seq with step 0 is refused and with any other step prints at
\* most |END - START| + 1 values.
C23_CallsAreBounded ==
    /\ \A i \in Events("exec") :
           LET e == trace[i]
               Loop(fl) ==
                   (fl.ok /\ check_input_limit(e.text) = <<>>) =>
                       LET start == ParseInt(fl.start_s).val
                           end == ParseInt(fl.end_s).val
                       IN  /\ Cardinality(CallsOf(i))
                                  <= (IF end >= start THEN end - start ELSE start - end) + 1
                           /\ \A s \in CallsOf(i) :
                                  DoneCount(trace[s].text) < DoneCount(e.text)
           IN  /\ \E j \in (i + 1)..Len(trace) :
                      trace[j].ev \in {"return", "raise"} /\ trace[j].call = e.call
               /\ e.depth <= DoneCount(command) + 2
               /\ Loop(ForLoopMatch(e.text))
    /\ \A k \in Events("run") :
           LET x == trace[k]
               made == {s \in (k + 1)..(RunEnd(k) - 1) :
                           trace[s].ev = "exec" /\ trace[s].depth = x.depth + 1}
           IN  x.argv[1] = Chars("xargs") =>
                   /\ Cardinality(made) <= Len(SplitWhitespace(x.text))
                   /\ \A s \in made :
                          /\ CallsOf(s) = {}
                          /\ \A t \in (s + 1)..LeftAt(s) :
                                 (trace[t].ev = "run" /\ trace[t].call = trace[s].call
                                      /\ trace[t].stage = 1) => trace[t].text = <<>>
                          /\ (StartsWith(trace[s].text, Chars("xargs "))
                                  /\ Chars("xargs") \in trace[s].allowed /\ slow = {}) =>
                                 /\ trace[LeftAt(s)].err = Chars("xargs: stdin required")
                                 /\ trace[LeftAt(s)].code = 1
    /\ \A k \in Events("stage") :
           LET e == trace[k]
               Stepped(start, end, step) ==
                   IF step.val = 0
                   THEN e.code = 1 /\ e.err = Chars("seq: step must not be 0") /\ e.out = <<>>
                   ELSE e.code = 0 =>
                            Len(SplitLines(e.out))
                                <= (IF end.val >= start.val THEN end.val - start.val
                                    ELSE start.val - end.val) + 1
           IN  ( /\ e.argv # <<>> /\ e.argv[1] = Chars("seq") /\ Len(e.argv) = 4
                 /\ e.code \notin {124, 126, 127}
                 /\ ParseInt(e.argv[2]).ok /\ ParseInt(e.argv[3]).ok /\ ParseInt(e.argv[4]).ok ) =>
                   Stepped(ParseInt(e.argv[2]), ParseInt(e.argv[3]), ParseInt(e.argv[4]))

\* a for loop inside a for loop: three calls deep, three iterations of the
\* inner body in all
C23_Witness ==
    /\ command = Chars("for i in $(seq 1 2); do for j in $(seq $i 2); do echo $i$j; done; done")
    /\ result.state = "returned"
    /\ result.out = Chars("11\n12\n22\n")
    /\ Cardinality({i \in Events("exec") : trace[i].depth = 3}) = 3

(***************************************************************************)
(* The progress of one session under submit-flag, submit-patch and reset   *)
(***************************************************************************)
\* how many levels of LEVEL_ORDER the requests address
MaxLevel == 4

\* the challenge ids the requests carry: the first levels and an unknown id
ChallengeIds == {LEVEL_ORDER[i] : i \in 1..MaxLevel} \cup {"level9"}
\* the flags a learner submits for a level: the right one, bare or padded, and wrong ones
SubmittedFlags(level_id) ==
    IF level_id \notin LEVELS THEN {Chars("FLAG{x}")}
    ELSE {LevelFlag(level_id), Chars(" ") \o LevelFlag(level_id) \o Chars("\n"),
          Chars("FLAG{x}"), LevelFlag("level4_boss")}
\* the lists of patch ids a learner checks
SubmittedPatches ==
    {<<>>, <<"p1">>, <<"p2">>, <<"p1", "p2">>, <<"p2", "p1", "p1">>, <<"p3", "p1">>,
     <<"p1", "p2", "p3">>, <<"d1", "d2">>}
\* the bearer tokens the requests carry: the session's and one of no session
Bearers == {"tok_main", "tok_none"}

\* what the client receives of a response
Response(r) == [status |-> r.status, code |-> r.code, data |-> r.data]

SubmitFlag ==
    \E challenge_id \in ChallengeIds, bearer \in Bearers :
        \E flag \in SubmittedFlags(challenge_id) :
            /\ LET Answered(r) == answer' = Response(r) /\ session' = r.s
               IN  Answered(submit_flag(challenge_id, flag, bearer, session, clock))
            /\ asked' = [fn |-> "submit_flag", args |-> <<challenge_id, flag, bearer>>]
            /\ UNCHANGED <<shellAllowed, env, cwd, ctxAllowed, slow, command, result, trace,
                           shellRoutes, webhooks, sessions, clock>>

SubmitPatch ==
    \E challenge_id \in ChallengeIds, bearer \in Bearers, patched \in SubmittedPatches :
        /\ LET Answered(r) == answer' = Response(r) /\ session' = r.s
           IN  Answered(submit_patch(challenge_id, patched, bearer, session, clock))
        /\ asked' = [fn |-> "submit_patch", args |-> <<challenge_id, patched, bearer>>]
        /\ UNCHANGED <<shellAllowed, env, cwd, ctxAllowed, slow, command, result, trace,
                       shellRoutes, webhooks, sessions, clock>>

ResetLevel ==
    \E challenge_id \in ChallengeIds, bearer \in Bearers :
        /\ LET Answered(r) == answer' = Response(r) /\ session' = r.s
           IN  Answered(reset_level(challenge_id, bearer, session, clock))
        /\ asked' = [fn |-> "reset_level", args |-> <<challenge_id, bearer>>]
        /\ UNCHANGED <<shellAllowed, env, cwd, ctxAllowed, slow, command, result, trace,
                       shellRoutes, webhooks, sessions, clock>>

Me ==
    \E bearer \in Bearers :
        /\ LET Answered(r) == answer' = Response(r) /\ session' = r.s
           IN  Answered(me(bearer, session, clock))
        /\ asked' = [fn |-> "me", args |-> <<bearer>>]
        /\ UNCHANGED <<shellAllowed, env, cwd, ctxAllowed, slow, command, result, trace,
                       shellRoutes, webhooks, sessions, clock>>

NextProgress == SubmitFlag \/ SubmitPatch \/ ResetLevel \/ Me

SpecProgress == Init /\ [][NextProgress]_vars

\* C24: a level whose defenseSolved is true has attackSolved true; a
\* submit-patch on a level whose defense status is locked is answered with
\* DEFENSE_LOCKED (409) and leaves the progress as it was; a reset that
\* succeeds leaves both flags of the level false
C24_DefenseImpliesAttack ==
    /\ [](\A l \in LEVELS : session.progress[l].defenseSolved => session.progress[l].attackSolved)
    /\ [][/\ (asked'.fn = "submit_patch" /\ answer'.code = "DEFENSE_LOCKED")
               => (answer'.status = 409 /\ session'.progress = session.progress)
          /\ (/\ asked'.fn = "submit_patch"
              /\ asked'.args[3] = session.token
              /\ asked'.args[1] \in LEVELS
              /\ status_for(session, asked'.args[1]).defense = "locked")
               => answer'.code = "DEFENSE_LOCKED"
          /\ (asked'.fn = "reset_level" /\ answer'.status = 200)
               => (/\ ~session'.progress[asked'.args[1]].attackSolved
                   /\ ~session'.progress[asked'.args[1]].defenseSolved)]_vars

\* a submit-patch on a level whose attack is unsolved was rejected with
\* DEFENSE_LOCKED in a session where another level's defense is solved
C24_Witness ==
    /\ asked.fn = "submit_patch"
    /\ answer.code = "DEFENSE_LOCKED"
    /\ session.progress["level1"].defenseSolved
    /\ ~session.progress[asked.args[1]].attackSolved

\* C25: a level whose defenseSolved is true comes after a level whose
\* defenseSolved is true, for every level but the first of LEVEL_ORDER
C25_DefenseInOrder ==
    \A i \in 2..Len(LEVEL_ORDER) :
        session.progress[LEVEL_ORDER[i]].defenseSolved
            => session.progress[LEVEL_ORDER[i - 1]].defenseSolved

(***************************************************************************)
(* A learner who keeps sending the correct flag and the complete patch     *)
(***************************************************************************)
\* the levels the learner plays
PlayLevels == {LEVEL_ORDER[i] : i \in 1..MaxLevel}
\* every patch id a level accepts, checked
FullPatch == <<"p1", "p2", "p3", "d1", "d2">>

\* the correct submit-flag request of a level
PlayFlagOf(level_id) ==
    /\ LET Answered(r) == answer' = Response(r) /\ session' = r.s
       IN  Answered(submit_flag(level_id, LevelFlag(level_id), session.token, session, clock))
    /\ asked' = [fn |-> "submit_flag", args |-> <<level_id, LevelFlag(level_id), session.token>>]
    /\ UNCHANGED <<shellAllowed, env, cwd, ctxAllowed, slow, command, result, trace,
                   shellRoutes, webhooks, sessions, clock>>

\* the submit-patch request of a level with every patch id checked
PlayPatchOf(level_id) ==
    /\ LET Answered(r) == answer' = Response(r) /\ session' = r.s
       IN  Answered(submit_patch(level_id, FullPatch, session.token, session, clock))
    /\ asked' = [fn |-> "submit_patch", args |-> <<level_id, FullPatch, session.token>>]
    /\ UNCHANGED <<shellAllowed, env, cwd, ctxAllowed, slow, command, result, trace,
                   shellRoutes, webhooks, sessions, clock>>

PlayFlag == \E level_id \in PlayLevels : PlayFlagOf(level_id)

PlayPatch == \E level_id \in PlayLevels : PlayPatchOf(level_id)

NextPlay == PlayFlag \/ PlayPatch \/ Me

\* the learner never stops sending a request that would still change something
SpecPlay ==
    /\ Init
    /\ [][NextPlay]_vars
    /\ \A level_id \in PlayLevels :
           WF_vars(PlayFlagOf(level_id)) /\ WF_vars(PlayPatchOf(level_id))

\* C26: the learner who keeps sending the correct requests reaches a state in
\* which every level played has defenseSolved true
C26_GameCompleted ==
    <>(\A level_id \in PlayLevels : session.progress[level_id].defenseSolved)

(***************************************************************************)
(* main.py: the terminal of a level and its rate limiter                   *)
(***************************************************************************)
\* a variant of _rate_limit_terminal that records the request it rejects
rate_limit_terminal_recording(s, now) ==
    LET window == SelectSeq(s.terminalRate, LAMBDA t : now - t <= CMD_RATE_WINDOW_SEC)
    IN  IF Len(window) >= CMD_RATE_MAX
        THEN [err |-> "RATE_LIMITED", s |-> [s EXCEPT !.terminalRate = Append(window, now)]]
        ELSE [err |-> "", s |-> [s EXCEPT !.terminalRate = Append(window, now)]]

\* _rate_limit_terminal(session): [err, s]
rate_limit_terminal(s, now) ==
    LET window == SelectSeq(s.terminalRate, LAMBDA t : now - t <= CMD_RATE_WINDOW_SEC)
    IN  IF Len(window) >= CMD_RATE_MAX
        THEN [err |-> "RATE_LIMITED", s |-> [s EXCEPT !.terminalRate = window]]
        ELSE [err |-> "", s |-> [s EXCEPT !.terminalRate = Append(window, now)]]

\* STATIC["attack"]["terminal"]["maxOutputBytes"] of level 4-5
Level45MaxOutputBytes == 18000

\* terminal_exec, after the command ran: the output limit and the envelope
terminal_exec_ran(r, s) ==
    IF r.exc # "" THEN ServerError(r.exc, s) @@ [hooks |-> r.hooks]
    ELSE LET truncated == Len(r.out) > Level45MaxOutputBytes
             stored == [s EXCEPT !.fakeShellState.level4_5.cwd = r.cwd]
         IN  Ok([stdout |-> IF truncated
                            THEN SubSeq(r.out, 1, Level45MaxOutputBytes)
                                     \o Chars("\n...(truncated)\n")
                            ELSE r.out,
                 stderr |-> r.err, exitCode |-> r.code, truncated |-> truncated], stored)
             @@ [hooks |-> r.hooks]

\* terminal_exec, after the rate limiter: the command runs in the level's shell
terminal_exec_limited(lim, cmd, hooks) ==
    IF lim.err # "" THEN APIError(lim.err, 429, lim.s) @@ [hooks |-> hooks]
    ELSE terminal_exec_ran(
             terminal_exec_with_session(Strip(cmd), Chars(lim.s.token),
                                        lim.s.fakeShellState.level4_5.cwd, hooks), lim.s)

\* terminal_exec, after the session lookup
terminal_exec_authorized(got, challenge_id, cmd, hooks, now) ==
    IF got.err # "" THEN APIError(got.err, 401, got.s) @@ [hooks |-> hooks]
    ELSE IF challenge_id \notin LEVELS THEN APIError("NOT_FOUND", 404, got.s) @@ [hooks |-> hooks]
    ELSE terminal_exec_limited(rate_limit_terminal(got.s, now), cmd, hooks)

\* POST /challenges/{challenge_id}/terminal/exec, for the terminal of level
\* 4-5: [status, code, data, s, hooks]
terminal_exec(challenge_id, cmd, bearer, s0, hooks, now) ==
    terminal_exec_authorized(get_session(bearer, s0, now), challenge_id, cmd, hooks, now)

\* the last second the clock reaches
MaxClock == 11

\* the terminal requests: challenge id, command and bearer token; two
\* commands that each undo the other's change of directory, a request for an
\* unknown level and a request without a session
TerminalRequests ==
    {<<"level4_5", Chars(" cd / && pwd "), "tok_main">>,
     <<"level4_5", Chars("cd /workspace"), "tok_main">>,
     <<"level9", Chars("pwd"), "tok_main">>,
     <<"level4_5", Chars("pwd"), "tok_none">>}

PostTerminalExec ==
    \E req \in TerminalRequests :
        /\ LET Answered(r) ==
                   /\ answer' = Response(r)
                   /\ session' = r.s
                   /\ webhooks' = r.hooks
           IN  Answered(terminal_exec(req[1], req[2], req[3], session, webhooks, clock))
        /\ asked' = [fn |-> "terminal_exec", args |-> req]
        /\ UNCHANGED <<shellAllowed, env, cwd, ctxAllowed, slow, command, result, trace,
                       shellRoutes, sessions, clock>>

\* time passes between two requests
Tick ==
    \E d \in {CMD_RATE_WINDOW_SEC, CMD_RATE_WINDOW_SEC + 1} :
        /\ clock + d <= MaxClock
        /\ clock' = clock + d
        /\ UNCHANGED <<shellAllowed, env, cwd, ctxAllowed, slow, command, result, trace,
                       shellRoutes, webhooks, asked, answer, sessions, session>>

NextRate == PostTerminalExec \/ Tick

SpecRate == Init /\ [][NextRate]_vars

\* the timestamps of the session's window that lie within the last
\* CMD_RATE_WINDOW_SEC seconds
RecentRequests == SelectSeq(session.terminalRate, LAMBDA t : clock - t <= CMD_RATE_WINDOW_SEC)

\* C27: terminalRate never holds more than CMD_RATE_MAX timestamps; a
\* terminal request of the session (a step that is not a tick of the clock)
\* that arrives when CMD_RATE_MAX timestamps
\* lie within the last CMD_RATE_WINDOW_SEC seconds is answered RATE_LIMITED
\* (429), runs no command (the shell state of the session and the webhook
\* state stay as they were) and is not recorded in terminalRate
C27_RateLimited ==
    /\ [](Len(session.terminalRate) <= CMD_RATE_MAX)
    /\ [][(/\ clock' = clock
           /\ asked'.fn = "terminal_exec"
           /\ asked'.args[3] = session.token
           /\ asked'.args[1] \in LEVELS
           /\ Len(RecentRequests) >= CMD_RATE_MAX)
            => (/\ answer'.code = "RATE_LIMITED"
                /\ answer'.status = 429
                /\ session'.fakeShellState = session.fakeShellState
                /\ webhooks' = webhooks
                /\ session'.terminalRate = RecentRequests)]_vars

\* a request whose command would have changed the session's directory was
\* rejected with RATE_LIMITED while the window held requests of two different
\* seconds, the older of them exactly CMD_RATE_WINDOW_SEC old
C27_Witness ==
    /\ asked.fn = "terminal_exec"
    /\ answer.code = "RATE_LIMITED"
    /\ asked.args[2] = Chars("cd /workspace")
    /\ session.fakeShellState.level4_5.cwd = Chars("/")
    /\ Len(session.terminalRate) = CMD_RATE_MAX
    /\ clock - session.terminalRate[1] = CMD_RATE_WINDOW_SEC
    /\ session.terminalRate[CMD_RATE_MAX] = clock

(***************************************************************************)
(* The defense commands of level 1-1 in one session                        *)
(***************************************************************************)
\* the defense commands a learner sends to the terminal of level 1-1
DefenseCommands ==
    {Chars("defense"), Chars("defense audit"), Chars(" defense verify "), Chars("attack"),
     Chars("defense undo"), Chars("defense apply"), Chars("defense apply {"),
     Chars("defense  apply {}"), Chars("defense apply [1]"),
     Chars("defense apply {\"logLevel\":\"INFO\",\"redactFlagPattern\":true,\"allowDebugTag\":false}"),
     Chars("defense apply {\"logLevel\": \" warn\"}"),
     Chars("defense apply {\"logLevel\":\"error\",\"redactFlagPattern\":true}"),
     Chars("defense apply {\"redactFlagPattern\":false}"),
     Chars("defense apply {\"allowDebugTag\":true}"),
     Chars("defense apply {\"allowDebugTag\":false,\"logLevel\":\"TRACE\"}"),
     Chars("defense apply {\"logLevel\":\"debug\",\"redactFlagPattern\":\"yes\"}"),
     Chars("defense apply {\"redactFlagPattern\":false,\"allowDebugTag\":1}")}
\* the texts secrets.token_hex(3).upper() draws
PatchProofs == {Chars("A1B2C3"), Chars("0D0E0F")}

\* terminal_exec_with_session of level 1-1 for a defense command
RunDefenseCommand ==
    \E cmd \in DefenseCommands, proof \in PatchProofs :
        /\ LET Answered(r) ==
                   /\ answer' = [err |-> r.err, code |-> r.code, exc |-> r.exc]
                   /\ session' = [session EXCEPT !.defenseState.level1 = r.state]
           IN  Answered(run_defense_command(cmd, session.defenseState.level1, proof))
        /\ asked' = [fn |-> "run_defense_command", args |-> <<cmd>>]
        /\ UNCHANGED <<shellAllowed, env, cwd, ctxAllowed, slow, command, result, trace,
                       shellRoutes, webhooks, sessions, clock>>

NextDefense == RunDefenseCommand

SpecDefense == Init /\ [][NextDefense]_vars

\* C28: while verified is true the policy passes every verify check
C28_VerifiedPolicyPasses ==
    session.defenseState.level1.verified
        => \A c \in DOMAIN VerifyChecks(session.defenseState.level1.policy) :
               VerifyChecks(session.defenseState.level1.policy)[c]

(***************************************************************************)
(* Deliveries to the webhook receiver of level 4-5                         *)
(***************************************************************************)
\* the partner's signature of a body at a timestamp
Signed(timestamp, raw_body) == compute_signature(PARTNER_WEBHOOK_SECRET, timestamp, raw_body)
\* the first second of the window and the last stale one
WindowStart == IntToStr(Now - TIMESTAMP_WINDOW_SEC)
StaleSecond == IntToStr(Now - TIMESTAMP_WINDOW_SEC - 1)
\* bodies: a delivery of another parcel, another event, a list, a broken text
OtherParcelBody == Chars("{\"type\":\"parcel.delivered\",\"parcel_id\":\"PD-2000\"}")
PingBody == Chars("{\"type\":\"ping\"}")
ListBody == Chars("[1]")
BrokenBody == Chars("{\"type\":")

\* the deliveries sent to the receiver: <<X-Webhook-Timestamp,
\* X-Webhook-Event-Id, X-Webhook-Signature, body>>, a header that is missing
\* being <<>>
WebhookDeliveries ==
    {<<IntToStr(Now), Chars("EVT-1"), Signed(IntToStr(Now), DeliveredBody), DeliveredBody>>,
     <<WindowStart, Chars(" EVT-1 "), Signed(WindowStart, OtherParcelBody), OtherParcelBody>>,
     <<IntToStr(Now), Chars("EVT-2"), Signed(IntToStr(Now), DeliveredBody), DeliveredBody>>,
     <<IntToStr(Now), Chars("EVT-2"), Signed(IntToStr(Now), PingBody), PingBody>>,
     <<IntToStr(Now), Chars("EVT-3"), Signed(IntToStr(Now), OtherParcelBody), OtherParcelBody>>,
     <<IntToStr(Now), Chars("EVT-3"), Signed(IntToStr(Now), ListBody), ListBody>>,
     <<IntToStr(Now), Chars("EVT-3"), Signed(IntToStr(Now), BrokenBody), BrokenBody>>,
     <<StaleSecond, Chars("EVT-1"), Signed(StaleSecond, DeliveredBody), DeliveredBody>>,
     <<IntToStr(Now), Chars("EVT-2"),
       compute_signature(Chars("whsec_guess"), IntToStr(Now), DeliveredBody), DeliveredBody>>,
     <<IntToStr(Now), <<>>, Signed(IntToStr(Now), DeliveredBody), DeliveredBody>>,
     <<IntToStr(Now), Chars("EVT-2"), <<>>, DeliveredBody>>,
     <<<<>>, Chars("EVT-3"), Signed(<<>>, DeliveredBody), DeliveredBody>>}

\* POST .../actions/webhook/receive
ReceiveWebhook ==
    \E d \in WebhookDeliveries :
        /\ LET Answered(r) ==
                   /\ answer' = [exc |-> r.exc, status |-> r.resp.status, body |-> r.resp.body]
                   /\ webhooks' = r.m.hooks
           IN  Answered(receive_webhook_payload(d[1], d[2], d[3], d[4],
                   [NewContext({}, Chars("/workspace"), {}, {}, {}) EXCEPT !.hooks = webhooks]))
        /\ asked' = [fn |-> "receive_webhook_payload", args |-> d]
        /\ UNCHANGED <<shellAllowed, env, cwd, ctxAllowed, slow, command, result, trace,
                       shellRoutes, sessions, session, clock>>

NextWebhook == ReceiveWebhook

SpecWebhook == Init /\ [][NextWebhook]_vars

\* a delivery <<timestamp, event id, signature, body>> that is signed by the
\* partner, in the window and carries a JSON text
ValidDelivery(args) ==
    /\ args[1] # <<>> /\ Strip(args[2]) # <<>>
    /\ ParseInt(Strip(args[1])).ok
    /\ Now - ParseInt(Strip(args[1])).val \in (0 - TIMESTAMP_WINDOW_SEC)..TIMESTAMP_WINDOW_SEC
    /\ args[3] = compute_signature(PARTNER_WEBHOOK_SECRET, Strip(args[1]), args[4])
    /\ json_loads(args[4]).ok
\* the answers of the receiver
CreditedAnswer == Chars("{\"ok\":true,\"data\":{\"accepted\":true,\"credited\":true}}")
DuplicateAnswer ==
    Chars("{\"ok\":true,\"data\":{\"accepted\":true,\"credited\":false,\"duplicate\":true}}")

\* C29: a valid delivery whose event id is among the processed ones is
\* answered duplicate=true, credited=false and leaves the receiver's state as
\* it was; a delivery is answered credited=true only when its event id was
\* not processed before, and is processed afterwards; a delivery rejected
\* (400 or 401: missing headers, stale timestamp, bad signature, invalid
\* JSON) leaves processedEventIds and parcelStatus as they were
C29_CreditedOnce ==
    [][/\ (ValidDelivery(asked'.args) /\ Strip(asked'.args[2]) \in webhooks.processedEventIds)
            => (/\ answer'.status = 200
                /\ answer'.body = DuplicateAnswer
                /\ webhooks' = webhooks)
       /\ (answer'.exc = "" /\ answer'.body = CreditedAnswer)
            => (/\ ValidDelivery(asked'.args)
                /\ Strip(asked'.args[2]) \notin webhooks.processedEventIds
                /\ Strip(asked'.args[2]) \in webhooks'.processedEventIds)
       /\ (~ValidDelivery(asked'.args) \/ answer'.status \in {400, 401})
            => (/\ answer'.status \in {400, 401}
                /\ ~ValidDelivery(asked'.args)
                /\ webhooks' = webhooks)]_vars

\* after EVT-1 delivered parcel PD-1004, a valid delivery of EVT-1 for parcel
\* PD-2000 was answered as a duplicate, and PD-2000 has no status
C29_Witness ==
    /\ asked.fn = "receive_webhook_payload"
    /\ ValidDelivery(asked.args)
    /\ asked.args[2] = Chars(" EVT-1 ")
    /\ asked.args[4] = OtherParcelBody
    /\ answer.body = DuplicateAnswer
    /\ webhooks.parcelStatus[Chars("PD-1004")].receipt = JStr(Chars("EVT-1"))
    /\ Chars("PD-2000") \notin DOMAIN webhooks.parcelStatus

(***************************************************************************)
(* main.py: the locker and the vault of the level 3 boss in one session    *)
(***************************************************************************)
\* what a boss endpoint answers without a session
BossUnauthorized == [http |-> 401, status |-> "UNAUTHORIZED", message |-> <<>>, attempts |-> 0,
                     claim_code |-> <<>>, flag |-> <<>>]

\* POST /challenges/level3_boss/actions/locker/unlock: [s, data]
level3_boss_locker_unlock(bearer, locker_id, pin, s0, now) ==
    LET Unlocked(s, r) == [s |-> [s EXCEPT !.level3_boss_state = r.state], data |-> r.data]
        Authorized(got) ==
            IF got.err # "" THEN [s |-> got.s, data |-> BossUnauthorized]
            ELSE Unlocked(got.s, locker_unlock_payload(got.s.level3_boss_state, locker_id, pin))
    IN  Authorized(get_session(bearer, s0, now))

\* POST /challenges/level3_boss/actions/vault/claim: [s, data]
level3_boss_vault_claim(bearer, vault_ticket, claim_code, s0, now) ==
    LET Claimed(s, r) == [s |-> [s EXCEPT !.level3_boss_state = r.state], data |-> r.data]
        Authorized(got) ==
            IF got.err # "" THEN [s |-> got.s, data |-> BossUnauthorized]
            ELSE Claimed(got.s, vault_claim_payload(got.s.level3_boss_state, vault_ticket,
                                                    claim_code))
    IN  Authorized(get_session(bearer, s0, now))

\* the unlock requests the model counts
MaxAttempts == 502

\* the unlock requests: bearer token, locker id and PIN
UnlockRequests ==
    {<<"tok_main", BOSS_LOCKER_ID, BOSS_PIN>>,
     <<"tok_main", Chars(" SL-11 "), Chars("7816 ")>>,
     <<"tok_main", BOSS_LOCKER_ID, Chars("7817")>>,
     <<"tok_main", Chars("SL-01"), BOSS_PIN>>,
     <<"tok_none", BOSS_LOCKER_ID, BOSS_PIN>>}
\* the claim requests: bearer token, vault ticket and claim code
ClaimRequests ==
    {<<"tok_main", BOSS_VAULT_TICKET, BOSS_CLAIM_CODE>>,
     <<"tok_main", Chars(" VTK-9a31-f1de"), Chars("CLM-11b4 ")>>,
     <<"tok_main", BOSS_VAULT_TICKET, Chars("None")>>,
     <<"tok_main", Chars("VTK-0000-0000"), BOSS_CLAIM_CODE>>,
     <<"tok_none", BOSS_VAULT_TICKET, BOSS_CLAIM_CODE>>}

LockerUnlock ==
    \E req \in UnlockRequests :
        /\ session.level3_boss_state.lockerAttempts < MaxAttempts
        /\ LET Answered(r) == answer' = r.data /\ session' = r.s
           IN  Answered(level3_boss_locker_unlock(req[1], req[2], req[3], session, clock))
        /\ asked' = [fn |-> "locker_unlock", args |-> req]
        /\ UNCHANGED <<shellAllowed, env, cwd, ctxAllowed, slow, command, result, trace,
                       shellRoutes, webhooks, sessions, clock>>

VaultClaim ==
    \E req \in ClaimRequests :
        /\ LET Answered(r) == answer' = r.data /\ session' = r.s
           IN  Answered(level3_boss_vault_claim(req[1], req[2], req[3], session, clock))
        /\ asked' = [fn |-> "vault_claim", args |-> req]
        /\ UNCHANGED <<shellAllowed, env, cwd, ctxAllowed, slow, command, result, trace,
                       shellRoutes, webhooks, sessions, clock>>

NextBoss == LockerUnlock \/ VaultClaim

SpecBoss == Init /\ [][NextBoss]_vars

\* an unlock request of the session: the step that sends it
UnlockOfSession == asked'.fn = "locker_unlock" /\ asked'.args[1] = session.token

\* C30: the vault answers with the flag only while the session is unlocked,
\* and a session becomes unlocked only by an unlock request with the locker
\* id and the PIN that brings the attempt count to at most BOSS_ATTEMPT_CAP;
\* the attempt count grows by one with every unlock request of the session
\* and changes at no other step; an unlock request that finds the count at
\* BOSS_ATTEMPT_CAP or above is denied and unlocks nothing
C30_VaultNeedsUnlock ==
    [][/\ (asked'.fn = "vault_claim" /\ answer'.flag # <<>>)
            => (answer'.flag = BOSS_FLAG /\ session.level3_boss_state.unlocked)
       /\ (~session.level3_boss_state.unlocked /\ session'.level3_boss_state.unlocked)
            => (/\ UnlockOfSession
                /\ Strip(asked'.args[2]) = BOSS_LOCKER_ID
                /\ Strip(asked'.args[3]) = BOSS_PIN
                /\ answer'.status = "unlocked"
                /\ session'.level3_boss_state.lockerAttempts <= BOSS_ATTEMPT_CAP)
       /\ session'.level3_boss_state.lockerAttempts
              = session.level3_boss_state.lockerAttempts + (IF UnlockOfSession THEN 1 ELSE 0)
       /\ (UnlockOfSession /\ session.level3_boss_state.lockerAttempts >= BOSS_ATTEMPT_CAP)
            => (/\ answer'.status = "denied"
                /\ session'.level3_boss_state.unlocked = session.level3_boss_state.unlocked)]_vars

\* an unlock request with the locker id and the PIN was denied as the first
\* one over the cap, in a session that never unlocked the locker
C30_Witness ==
    /\ asked.fn = "locker_unlock"
    /\ asked.args = <<"tok_main", BOSS_LOCKER_ID, BOSS_PIN>>
    /\ answer.status = "denied"
    /\ session.level3_boss_state.lockerAttempts = BOSS_ATTEMPT_CAP + 1
    /\ ~session.level3_boss_state.unlocked

====
